---- MODULE Spec2Model ----
(***************************************************************************)
(* A model of s3fs/core.py: the directory cache of S3FileSystem with the   *)
(* listing, metadata and mutation operations that read and evict it, and   *)
(* the buffered write handle S3File with its multipart session.            *)
(*                                                                         *)
(* A path is the sequence of its "/"-separated segments: "a/b/c" is        *)
(* <<"a","b","c">>, a bare bucket is <<"a">> and the root "" is <<>>.        *)
(* Every segment name of the model has one character.                      *)
(* Each operation of the filesystem is one action; the remote calls it     *)
(* issues and the cache evictions it performs are recorded, in program     *)
(* order, in trace.                                                        *)
(***************************************************************************)
EXTENDS Integers, Sequences, FiniteSets, TLC

VARIABLES
    buckets,        \* remote store: the buckets that exist
    objects,        \* remote store: the paths (bucket/key) of the objects that exist
    dircache,       \* S3FileSystem.dircache: path -> listing (sequence of entries)
    anon,           \* S3FileSystem.anon
    version_aware,  \* S3FileSystem.version_aware
    file,           \* the S3File write handle: its fields, and what was asked of it
    remote,         \* remote store: the handle's multipart session and the object's body
    trace,          \* remote calls and cache evictions of the running operation, in order
    last            \* the operation that has just ended: name, arguments, outcome;
                    \* op = "idle" between two operations

fsvars == <<buckets, objects, dircache, anon, version_aware>>
hvars == <<file, remote>>
vars == <<buckets, objects, dircache, anon, version_aware, file, remote, trace, last>>

----------------------------------------------------------------------------
(* The path universe.                                                      *)

\* Object paths of the model, bucket by bucket in the key order S3 lists them in.
AllKeys == << <<"a", "b", "c">>, <<"a", "d">>, <<"a", "g", "h">>, <<"z", "f">> >>

AllBuckets == <<"a", "z">>

Range(s) == {s[i] : i \in DOMAIN s}

ObjPaths == Range(AllKeys)

\* The objects the store holds at the start, which are also the paths the
\* model writes to: those of bucket "a". Bucket "z" starts empty.
WritePaths == {k \in ObjPaths : k[1] = "a"}

BucketNames == Range(AllBuckets)

\* Every path an operation can be called with: the root, the buckets, the
\* objects and the pseudo-directories above them.
Paths ==
    {<<>>} \cup {<<b>> : b \in BucketNames}
           \cup UNION {{SubSeq(k, 1, n) : n \in 1..Len(k)} : k \in ObjPaths}

\* len(path) of the path string: one character per segment plus the separators.
StrLen(p) == IF p = <<>> THEN 0 ELSE 2 * Len(p) - 1

\* AbstractFileSystem._parent with root_marker "": everything before the last "/".
_parent(p) == IF Len(p) <= 1 THEN <<>> ELSE SubSeq(p, 1, Len(p) - 1)

\* split_path: (bucket, key); the key is empty when the path holds no "/".
BucketOf(p) == IF p = <<>> THEN "" ELSE p[1]

KeyOf(p) == IF p = <<>> THEN <<>> ELSE Tail(p)

\* k lies strictly below p: the key of k starts with the key of p followed by "/".
Under(p, k) == Len(k) > Len(p) /\ SubSeq(k, 1, Len(p)) = p

----------------------------------------------------------------------------
(* Entries, and the records of trace.                                      *)

FileEntry(p) == [name |-> p, type |-> "file"]

DirEntry(p) == [name |-> p, type |-> "directory"]

Call(m, p, ok) == [m |-> m, path |-> p, ok |-> ok, keys |-> {}]

EmptyCache == [k \in {} |-> <<>>]

Pop(cache, p) == [k \in (DOMAIN cache) \ {p} |-> cache[k]]

Put(cache, p, v) == [k \in (DOMAIN cache) \cup {p} |-> IF k = p THEN v ELSE cache[k]]

RECURSIVE PopUp(_, _)
\* The loop of invalidate_cache: while path: pop(path); path = _parent(path).
PopUp(cache, p) == IF p = <<>> THEN cache ELSE PopUp(Pop(cache, p), _parent(p))

\* S3FileSystem.invalidate_cache(path) for a path that is not None.
invalidate_cache(cache, p) == PopUp(Pop(cache, p), p)

\* The record of one invalidate_cache call: keys are the entries it evicted.
Evict(cache, p) ==
    [m |-> "invalidate_cache", path |-> p, ok |-> TRUE,
     keys |-> (DOMAIN cache) \ (DOMAIN invalidate_cache(cache, p))]

RemoteMethods ==
    {"list_objects_v2", "list_buckets", "head_object", "get_object", "put_object",
     "delete_object",
     "delete_objects", "create_bucket", "delete_bucket", "create_multipart_upload",
     "upload_part", "upload_part_copy", "complete_multipart_upload",
     "abort_multipart_upload", "copy_object", "get_bucket_versioning", "list_object_versions"}

\* The remote calls that change the store.
MutatingMethods ==
    {"put_object", "delete_object", "delete_objects", "create_bucket", "delete_bucket",
     "complete_multipart_upload", "copy_object"}

IsRemote(c) == c.m \in RemoteMethods

----------------------------------------------------------------------------
(* The remote store's answers.                                             *)

\* How a remote call ends: it answers, it fails (any error that is not a
\* permission error), or it is refused for lack of permission.
Outcomes == {"ok", "fail", "denied"}

\* An operation is given the outcomes rs of its remote calls in the order it
\* issues them; n is the number of calls it has issued so far. The reply to
\* its next call, on the bucket of p: a call that would be answered finds the
\* bucket missing when it does not exist.
Reply(bks, p, rs, n) ==
    IF rs[n + 1] = "ok" /\ BucketOf(p) \notin bks THEN "missing" ELSE rs[n + 1]

\* The exception _call_s3 raises for a reply that is not an answer.
ErrorOf(rep) ==
    IF rep = "missing" THEN "FileNotFoundError"
    ELSE IF rep = "denied" THEN "PermissionError" ELSE "error"

\* The keys of a list_objects_v2 below path p (Prefix = key + "/" + prefix), in
\* S3's key order. A non-empty prefix is one character: the first one after p.
Listed(objs, p, prefix) ==
    SelectSeq(AllKeys, LAMBDA k : k \in objs /\ Under(p, k)
                                   /\ (prefix = "" \/ k[Len(p) + 1] = prefix))

RECURSIVE Dedup(_)
Dedup(s) ==
    IF s = <<>> THEN <<>>
    ELSE LET r == Dedup(SubSeq(s, 1, Len(s) - 1))
             x == s[Len(s)]
         IN  IF x \in Range(r) THEN r ELSE Append(r, x)

\* "Contents" of the listing, all pages together: with a delimiter only the
\* keys with no further "/" below p, without one every key below p.
Contents(objs, p, delimiter, prefix) ==
    SelectSeq(Listed(objs, p, prefix), LAMBDA k : ~delimiter \/ Len(k) = Len(p) + 1)

\* "CommonPrefixes" of the listing: with a delimiter, the distinct prefixes up to
\* the next "/" of the deeper keys (without their trailing "/").
CommonPrefixes(objs, p, delimiter, prefix) ==
    IF ~delimiter THEN <<>>
    ELSE LET deep == SelectSeq(Listed(objs, p, prefix), LAMBDA k : Len(k) > Len(p) + 1)
         IN  Dedup([i \in 1..Len(deep) |-> SubSeq(deep[i], 1, Len(p) + 1)])

\* The files list _lsdir builds from the pages: the objects, then the
\* directories synthesised from the common prefixes.
ListingOf(objs, p, delimiter, prefix) ==
    LET cs == Contents(objs, p, delimiter, prefix)
        ps == CommonPrefixes(objs, p, delimiter, prefix)
    IN  [i \in 1..Len(cs) |-> FileEntry(cs[i])] \o [i \in 1..Len(ps) |-> DirEntry(ps[i])]

----------------------------------------------------------------------------
(* Listing: _lsdir, _lsbuckets, _ls.                                       *)

\* A mutant of _lsdir's store: the listing is cached whatever the delimiter is.
LsdirStores_nodelim(delimiter, files) == files # <<>>

\* _lsdir line 600: "if delimiter and files".
LsdirStores(delimiter, files) == delimiter /\ files # <<>>

\* _lsdir line 557: "if path not in self.dircache or refresh or not delimiter".
LsdirFetches(cache, p, refresh, delimiter) ==
    p \notin DOMAIN cache \/ refresh \/ ~delimiter

\* _lsdir: status, the files returned, the cache afterwards and the calls made.
_lsdir(cache, objs, bks, p, refresh, delimiter, prefix, rs, n) ==
    IF LsdirFetches(cache, p, refresh, delimiter)
    THEN LET rep == Reply(bks, p, rs, n)
             files == ListingOf(objs, p, delimiter, prefix)
         IN  IF rep = "ok"
             THEN [status |-> "ok", out |-> files,
                   cache |-> IF LsdirStores(delimiter, files)
                             THEN Put(cache, p, files) ELSE cache,
                   calls |-> <<Call("list_objects_v2", p, TRUE)>>]
             ELSE [status |-> ErrorOf(rep), out |-> <<>>, cache |-> cache,
                   calls |-> <<Call("list_objects_v2", p, FALSE)>>]
    ELSE [status |-> "ok", out |-> cache[p], cache |-> cache, calls |-> <<>>]

\* The entries _lsbuckets makes of the list_buckets reply.
BucketListing(bks) ==
    LET bs == SelectSeq(AllBuckets, LAMBDA b : b \in bks)
    IN  [i \in 1..Len(bs) |-> DirEntry(<<bs[i]>>)]

\* _lsbuckets line 764: the reply is stored whatever it holds.
LsbucketsStores(files) == TRUE

\* _lsbuckets.
_lsbuckets(cache, bks, isanon, refresh, rs, n) ==
    IF <<>> \notin DOMAIN cache \/ refresh
    THEN IF isanon
         THEN [status |-> "ok", out |-> <<>>, cache |-> cache, calls |-> <<>>]
         ELSE IF rs[n + 1] = "ok"
         THEN LET files == BucketListing(bks)
              IN  [status |-> "ok", out |-> files,
                   cache |-> IF LsbucketsStores(files)
                             THEN Put(cache, <<>>, files) ELSE cache,
                   calls |-> <<Call("list_buckets", <<>>, TRUE)>>]
         ELSE [status |-> ErrorOf(rs[n + 1]), out |-> <<>>, cache |-> cache,
               calls |-> <<Call("list_buckets", <<>>, FALSE)>>]
    ELSE [status |-> "ok", out |-> cache[<<>>], cache |-> cache, calls |-> <<>>]

\* _ls lines 790-794: the path's own entry, if it is not a directory, in the
\* listing two of its parent.
LsEntry(one, two, p) ==
    [status |-> two.status,
     out |-> SelectSeq(two.out, LAMBDA o : o.name = p /\ o.type # "directory"),
     cache |-> two.cache,
     calls |-> one.calls \o two.calls]

\* _ls lines 788-789: when the listing one of the path is empty and the path
\* holds a "/", the parent is listed.
LsParent(one, objs, bks, p, refresh, rs, n) ==
    IF one.status # "ok" \/ one.out # <<>> \/ Len(p) < 2 THEN one
    ELSE LsEntry(one, _lsdir(one.cache, objs, bks, _parent(p), refresh, TRUE, "", rs,
                             n + Len(one.calls)), p)

\* _ls: the bucket list for the root; otherwise the listing of the path and,
\* when that is empty and the path has a parent, the path's own entry in the
\* parent's listing.
_ls(cache, objs, bks, isanon, p, refresh, rs, n) ==
    IF p = <<>> THEN _lsbuckets(cache, bks, isanon, refresh, rs, n)
    ELSE LsParent(_lsdir(cache, objs, bks, p, refresh, TRUE, "", rs, n),
                  objs, bks, p, refresh, rs, n)

----------------------------------------------------------------------------
(* Metadata: _ls_from_cache, _simple_info, _version_aware_info, _info,     *)
(* _exists.                                                                *)

\* AbstractFileSystem._ls_from_cache: the cached listing of the path itself,
\* else the path's entries in its parent's cached listing (FileNotFoundError
\* when the parent is cached and does not hold it), else None.
_ls_from_cache(cache, p) ==
    IF p \in DOMAIN cache THEN [kind |-> "hit", files |-> cache[p]]
    ELSE IF _parent(p) \in DOMAIN cache
    THEN LET files == SelectSeq(cache[_parent(p)], LAMBDA f : f.name = p)
         IN  IF files = <<>> THEN [kind |-> "FileNotFoundError", files |-> <<>>]
             ELSE [kind |-> "hit", files |-> files]
    ELSE [kind |-> "None", files |-> <<>>]

\* _simple_info: the list probe with MaxKeys=1 and the key itself as prefix.
\* "ok" with the file, "None" when only deeper keys exist, FileNotFoundError
\* when nothing starts with the key.
_simple_info(objs, bks, p, rs, n) ==
    LET rep == Reply(bks, p, rs, n)
        c == Call("list_objects_v2", p, rep = "ok")
    IN  IF rep # "ok" THEN [status |-> ErrorOf(rep), out |-> <<>>, calls |-> <<c>>]
        ELSE IF p \in objs THEN [status |-> "ok", out |-> <<FileEntry(p)>>, calls |-> <<c>>]
        ELSE IF \E k \in objs : Under(p, k)
        THEN [status |-> "None", out |-> <<>>, calls |-> <<c>>]
        ELSE [status |-> "FileNotFoundError", out |-> <<>>, calls |-> <<c>>]

\* A mutant of the head probe: FileNotFoundError is not caught.
_version_aware_info_raises(objs, bks, p, rs, n) ==
    LET rep == Reply(bks, p, rs, n)
        found == rep = "ok" /\ p \in objs
        c == Call("head_object", p, found)
    IN  IF rep \in {"fail", "denied"}
        THEN [status |-> ErrorOf(rep), out |-> <<>>, calls |-> <<c>>]
        ELSE IF found THEN [status |-> "ok", out |-> <<FileEntry(p)>>, calls |-> <<c>>]
        ELSE [status |-> "FileNotFoundError", out |-> <<>>, calls |-> <<c>>]

\* _version_aware_info: the head probe; None when the object is not found.
_version_aware_info(objs, bks, p, rs, n) ==
    LET rep == Reply(bks, p, rs, n)
        found == rep = "ok" /\ p \in objs
        c == Call("head_object", p, found)
    IN  IF rep \in {"fail", "denied"}
        THEN [status |-> ErrorOf(rep), out |-> <<>>, calls |-> <<c>>]
        ELSE IF found THEN [status |-> "ok", out |-> <<FileEntry(p)>>, calls |-> <<c>>]
        ELSE [status |-> "None", out |-> <<>>, calls |-> <<c>>]

\* The directory probe of _info (lines 1082-1112): a listing with MaxKeys=1
\* below the key.
DirProbe(objs, bks, p, rs, n) ==
    LET rep == Reply(bks, p, rs, n)
        c == Call("list_objects_v2", p, rep = "ok")
    IN  IF rep # "ok" THEN [status |-> ErrorOf(rep), out |-> <<>>, calls |-> <<c>>]
        ELSE IF \E k \in objs : Under(p, k)
        THEN [status |-> "ok", out |-> <<DirEntry(p)>>, calls |-> <<c>>]
        ELSE [status |-> "FileNotFoundError", out |-> <<>>, calls |-> <<c>>]

\* The result r of a step, with the calls made before it in front of its own.
After(calls, r) == [r EXCEPT !.calls = calls \o r.calls]

\* A mutant of the fallback: the head probe after any error of the list probe.
KeyProbeDenied_any_error(s, objs, bks, p, rs, n) ==
    IF s.status \in {"PermissionError", "error"}
    THEN After(s.calls, _version_aware_info(objs, bks, p, rs, n + 1))
    ELSE s

\* _info lines 1071-1076: the head probe when the list probe s was refused.
KeyProbeDenied(s, objs, bks, p, rs, n) ==
    IF s.status = "PermissionError"
    THEN After(s.calls, _version_aware_info(objs, bks, p, rs, n + 1))
    ELSE s

\* The exact-key probes of _info (lines 1060-1080) for a path with a key.
KeyProbe(objs, bks, va, p, rs, n) ==
    IF va THEN _version_aware_info(objs, bks, p, rs, n)
    ELSE KeyProbeDenied(_simple_info(objs, bks, p, rs, n), objs, bks, p, rs, n)

\* _info lines 1054-1059: whether the cache is consulted.
InfoUsesCache(refresh) == ~refresh

\* _info lines 1056-1059: the entry of the path in what the cache gave, else a
\* directory entry.
InfoHit(hit, p) ==
    [status |-> "ok", out |-> IF hit # <<>> THEN <<hit[1]>> ELSE <<DirEntry(p)>>,
     calls |-> <<>>]

\* _info lines 1054-1059 with the answer c of _ls_from_cache, which is not None.
InfoCached(c, p) ==
    IF c.kind = "FileNotFoundError"
    THEN [status |-> "FileNotFoundError", out |-> <<>>, calls |-> <<>>]
    ELSE InfoHit(SelectSeq(c.files, LAMBDA o : o.name = p), p)

\* _info lines 1077-1112: the result k of the key probes if it is an entry or
\* an error, else the directory probe.
InfoProbe(k, objs, bks, p, rs, n) ==
    IF k.status # "None" THEN k
    ELSE After(k.calls, DirProbe(objs, bks, p, rs, n + Len(k.calls)))

\* _info(path, refresh) without a version id.
_info(cache, objs, bks, va, p, refresh, rs, n) ==
    IF p = <<>> THEN [status |-> "ok", out |-> <<DirEntry(p)>>, calls |-> <<>>]
    ELSE IF InfoUsesCache(refresh) /\ _ls_from_cache(cache, p).kind # "None"
    THEN InfoCached(_ls_from_cache(cache, p), p)
    ELSE InfoProbe(IF KeyOf(p) # <<>> THEN KeyProbe(objs, bks, va, p, rs, n)
                   ELSE [status |-> "None", out |-> <<>>, calls |-> <<>>],
                   objs, bks, p, rs, n)

\* _exists lines 811-815: the path exists if _info returns, does not if it
\* raises FileNotFoundError; any other error of _info is raised.
ExistsInfo(i) ==
    [status |-> IF i.status = "FileNotFoundError" THEN "ok" ELSE i.status,
     result |-> i.status = "ok", calls |-> i.calls]

\* _exists lines 825-831: the bucket exists if a listing of one key answers.
ExistsBucket(rep, p) ==
    [status |-> "ok", result |-> rep = "ok",
     calls |-> <<Call("list_objects_v2", p, rep = "ok")>>]

\* _exists lines 805-831 with the answer c of _ls_from_cache.
ExistsFrom(c, cache, objs, bks, va, p, rs, n) ==
    IF KeyOf(p) # <<>> /\ c.kind = "FileNotFoundError"
    THEN [status |-> "ok", result |-> FALSE, calls |-> <<>>]
    ELSE IF c.kind = "hit" /\ c.files # <<>>
    THEN [status |-> "ok", result |-> TRUE, calls |-> <<>>]
    ELSE IF KeyOf(p) # <<>>
    THEN ExistsInfo(_info(cache, objs, bks, va, p, FALSE, rs, n))
    ELSE ExistsBucket(Reply(bks, p, rs, n), p)

\* _exists: status "ok" with the answer as result, or the error _info raised.
_exists(cache, objs, bks, va, p, rs, n) ==
    IF p = <<>> THEN [status |-> "ok", result |-> TRUE, calls |-> <<>>]
    ELSE ExistsFrom(_ls_from_cache(cache, p), cache, objs, bks, va, p, rs, n)

----------------------------------------------------------------------------
(* _find without maxdepth: one flat listing, directories synthesised from   *)
(* the parents of the objects found.                                       *)

\* Every path in the order of the path strings (sorted(..., key=name)).
PathOrder ==
    << <<>>, <<"a">>, <<"a", "b">>, <<"a", "b", "c">>, <<"a", "d">>, <<"a", "g">>,
       <<"a", "g", "h">>, <<"z">>, <<"z", "f">> >>

SortByName(es) ==
    LET names == SelectSeq(PathOrder, LAMBDA n : \E i \in DOMAIN es : es[i].name = n)
    IN  [i \in 1..Len(names) |-> CHOOSE e \in Range(es) : e.name = names[i]]

\* One turn of the loop of _find (lines 651-673) for the entry o.
FindStep(cache, path, st, o) ==
    LET par == _parent(o.name)
        fresh == par \notin DOMAIN cache /\ par \notin st.sdirs
        isdir == StrLen(path) <= StrLen(par)
        d == DirEntry(par)
        ppar == _parent(par)
        t1 == IF fresh THEN Put(st.tdc, par, <<>>) ELSE st.tdc
        t2 == IF fresh /\ isdir /\ ppar \in DOMAIN t1 /\ d \notin Range(t1[ppar])
              THEN Put(t1, ppar, Append(t1[ppar], d)) ELSE t1
        sd == IF fresh THEN st.sdirs \cup {par} ELSE st.sdirs
    IN  [dirs |-> IF fresh /\ isdir THEN Append(st.dirs, d) ELSE st.dirs,
         sdirs |-> sd,
         tdc |-> IF par \in sd THEN Put(t2, par, Append(t2[par], o)) ELSE t2]

RECURSIVE FindLoop(_, _, _, _)
FindLoop(cache, path, out, n) ==
    IF n = 0 THEN [dirs |-> <<>>, sdirs |-> {}, tdc |-> EmptyCache]
    ELSE FindStep(cache, path, FindLoop(cache, path, out, n - 1), out[n])

\* _find lines 675-677: the entries of thisdircache that go into the cache.
FindStores(cache, path, tdc) ==
    {k \in DOMAIN tdc : k \notin DOMAIN cache /\ StrLen(k) >= StrLen(path)}

\* _find lines 674-677: the cache with the entries keep of thisdircache added.
FindCached(cache, keep, tdc) ==
    [k \in (DOMAIN cache) \cup keep |-> IF k \in keep THEN tdc[k] ELSE cache[k]]

\* _find lines 674-682 after the loop has ended in st.
FindEnd(cache, p, withdirs, prefix, out, st, calls) ==
    [status |-> "ok",
     out |-> IF withdirs THEN SortByName(out \o st.dirs) ELSE out,
     cache |-> FindCached(cache,
                          IF prefix = "" THEN FindStores(cache, p, st.tdc) ELSE {},
                          st.tdc),
     calls |-> calls]

\* _find lines 648-682 for the entries out.
FindWalk(cache, p, withdirs, prefix, out, calls) ==
    FindEnd(cache, p, withdirs, prefix, out, FindLoop(cache, p, out, Len(out)), calls)

\* _find lines 644-647 with the result i of _info(path): FileNotFoundError
\* gives no entry, any other error is raised.
FindInfo(cache, p, withdirs, prefix, l, i) ==
    IF i.status \in {"ok", "FileNotFoundError"}
    THEN FindWalk(cache, p, withdirs, prefix, i.out, l.calls \o i.calls)
    ELSE [status |-> i.status, out |-> <<>>, cache |-> cache,
          calls |-> l.calls \o i.calls]

\* _find lines 643-682 with the result l of the flat listing.
FindListed(objs, bks, va, p, withdirs, prefix, l, rs, n) ==
    IF l.status # "ok"
    THEN [status |-> l.status, out |-> <<>>, cache |-> l.cache, calls |-> l.calls]
    ELSE IF l.out = <<>> /\ KeyOf(p) # <<>>
    THEN FindInfo(l.cache, p, withdirs, prefix, l,
                  _info(l.cache, objs, bks, va, p, FALSE, rs, n + Len(l.calls)))
    ELSE FindWalk(l.cache, p, withdirs, prefix, l.out, l.calls)

\* A mutant of _find: the empty path is not refused.
_find_all_of_s3(cache, objs, bks, va, p, withdirs, prefix, rs, n) ==
    IF withdirs /\ prefix # ""
    THEN [status |-> "ValueError", out |-> <<>>, cache |-> cache, calls |-> <<>>]
    ELSE FindListed(objs, bks, va, p, withdirs, prefix,
                    _lsdir(cache, objs, bks, p, FALSE, FALSE, prefix, rs, n), rs, n)

\* _find(path, withdirs=withdirs, prefix=prefix), maxdepth None.
_find(cache, objs, bks, va, p, withdirs, prefix, rs, n) ==
    IF BucketOf(p) = "" \/ (withdirs /\ prefix # "")
    THEN [status |-> "ValueError", out |-> <<>>, cache |-> cache, calls |-> <<>>]
    ELSE FindListed(objs, bks, va, p, withdirs, prefix,
                    _lsdir(cache, objs, bks, p, FALSE, FALSE, prefix, rs, n), rs, n)

----------------------------------------------------------------------------
(* Mutations: _touch, _pipe_file, _rm_file, _bulk_delete, _mkdir, _rmdir.  *)
(* Each gives its status, the cache and the store afterwards, and in calls *)
(* its remote calls and its invalidate_cache calls in program order.       *)

Min(S) == CHOOSE x \in S : \A y \in S : x <= y

NumRemote(calls) == Len(SelectSeq(calls, IsRemote))

Result(status, cache, objs, bks, calls) ==
    [status |-> status, cache |-> cache, objs |-> objs, bks |-> bks, calls |-> calls]

\* The remote calls ms issued one after the other on the bucket of p, up to
\* and including the first that fails.
RunCalls(bks, p, ms, rs, n) ==
    LET bad == {i \in 1..Len(ms) : Reply(bks, p, rs, n + i - 1) # "ok"}
        stop == IF bad = {} THEN Len(ms) ELSE Min(bad)
    IN  [i \in 1..stop |-> Call(ms[i], p, i \notin bad)]

AllOk(calls) == \A i \in DOMAIN calls : calls[i].ok

\* _touch lines 848-849: the put_object, then the parent is invalidated.
TouchPut(e, cache, objs, bks, p, put) ==
    IF ~AllOk(put) THEN Result("error", cache, objs, bks, e.calls \o put)
    ELSE Result("ok", invalidate_cache(cache, _parent(p)), objs \cup {p}, bks,
                e.calls \o put \o <<Evict(cache, _parent(p))>>)

\* _touch lines 846-849 with the answer e of the existence test.
TouchExists(e, cache, objs, bks, p, rs, n) ==
    IF e.status # "ok" THEN Result(e.status, cache, objs, bks, e.calls)
    ELSE IF e.result THEN Result("ValueError", cache, objs, bks, e.calls)
    ELSE TouchPut(e, cache, objs, bks, p,
                  RunCalls(bks, p, <<"put_object">>, rs, n + Len(e.calls)))

\* _touch(path, truncate): without truncate the path must not exist.
_touch(cache, objs, bks, va, p, truncate, rs, n) ==
    TouchExists(IF truncate THEN [status |-> "ok", result |-> FALSE, calls |-> <<>>]
                ELSE _exists(cache, objs, bks, va, p, rs, n),
                cache, objs, bks, p, rs, n)

\* The number of chunks of the data of a multipart _pipe_file.
PipeParts == 2

\* _pipe_file: one put_object for data below min(5 GiB, 2 * chunksize), which
\* returns at once (line 876); else a multipart upload, and the path is
\* invalidated after it (line 907).
_pipe_file(cache, objs, bks, p, big, rs, n) ==
    LET ms == IF big
              THEN <<"create_multipart_upload">> \o [i \in 1..PipeParts |-> "upload_part"]
                       \o <<"complete_multipart_upload">>
              ELSE <<"put_object">>
        cs == RunCalls(bks, p, ms, rs, n)
    IN  IF ~AllOk(cs) THEN Result("error", cache, objs, bks, cs)
        ELSE IF big
        THEN Result("ok", invalidate_cache(cache, p), objs \cup {p}, bks,
                    cs \o <<Evict(cache, p)>>)
        ELSE Result("ok", cache, objs \cup {p}, bks, cs)

\* _rm_file: one delete_object; the cache is not touched.
_rm_file(cache, objs, bks, p, rs, n) ==
    LET cs == RunCalls(bks, p, <<"delete_object">>, rs, n)
    IN  IF ~AllOk(cs) THEN Result("error", cache, objs, bks, cs)
        ELSE Result("ok", cache, objs \ {p}, bks, cs)

RECURSIVE EvictParents(_, _, _)
\* _bulk_delete lines 1644-1645: the parent of each path is invalidated, in
\* the order of pathlist. The cache after the first n paths, and the records.
EvictParents(cache, pathlist, n) ==
    IF n = 0 THEN [cache |-> cache, calls |-> <<>>]
    ELSE LET before == EvictParents(cache, pathlist, n - 1)
             q == _parent(pathlist[n])
         IN  [cache |-> invalidate_cache(before.cache, q),
              calls |-> Append(before.calls, Evict(before.cache, q))]

\* _rm line 1668 and _bulk_delete line 1638: the most paths of one
\* _bulk_delete.
MaxBatch == 1000

\* A mutant of _bulk_delete: the paths may be of several buckets.
_bulk_delete_any_bucket(cache, objs, bks, pathlist, rs, n) ==
    LET ev == EvictParents(cache, pathlist, Len(pathlist))
        cs == RunCalls(bks, pathlist[1], <<"delete_objects">>, rs, n)
    IN  IF pathlist = <<>> THEN Result("ok", cache, objs, bks, <<>>)
        ELSE IF Len(pathlist) > MaxBatch THEN Result("ValueError", cache, objs, bks, <<>>)
        ELSE IF ~AllOk(cs) THEN Result("error", ev.cache, objs, bks, ev.calls \o cs)
        ELSE Result("ok", ev.cache, objs \ Range(pathlist), bks, ev.calls \o cs)

\* _bulk_delete(pathlist), lines 1622-1646.
_bulk_delete(cache, objs, bks, pathlist, rs, n) ==
    LET bs == {BucketOf(pathlist[i]) : i \in DOMAIN pathlist}
        ev == EvictParents(cache, pathlist, Len(pathlist))
        cs == RunCalls(bks, pathlist[1], <<"delete_objects">>, rs, n)
    IN  IF pathlist = <<>> THEN Result("ok", cache, objs, bks, <<>>)
        ELSE IF Cardinality(bs) > 1 THEN Result("ValueError", cache, objs, bks, <<>>)
        ELSE IF Len(pathlist) > MaxBatch THEN Result("ValueError", cache, objs, bks, <<>>)
        ELSE IF ~AllOk(cs) THEN Result("error", ev.cache, objs, bks, ev.calls \o cs)
        ELSE Result("ok", ev.cache, objs \ Range(pathlist), bks, ev.calls \o cs)

\* The canned ACLs of buckets (buck_acls); "bogus" stands for any other text.
buck_acls == {"private", "public-read", "public-read-write", "authenticated-read"}

\* _mkdir lines 708-712: create_bucket, then the root and the bucket are
\* invalidated. S3 refuses to create a bucket that exists.
MkdirCreate(e, cache, objs, bks, b, made) ==
    IF ~made
    THEN Result("error", cache, objs, bks, Append(e.calls, Call("create_bucket", b, FALSE)))
    ELSE Result("ok", invalidate_cache(invalidate_cache(cache, <<>>), b), objs,
                bks \cup {b[1]},
                e.calls \o <<Call("create_bucket", b, TRUE), Evict(cache, <<>>),
                             Evict(invalidate_cache(cache, <<>>), b)>>)

\* _mkdir line 717: the listing l of the bucket, which raises if it is missing.
MkdirLs(e, l, objs, bks) == Result(l.status, l.cache, objs, bks, e.calls \o l.calls)

\* _mkdir lines 691-717 with the answer e of _exists(bucket).
MkdirExists(e, cache, objs, bks, isanon, p, acl, create_parents, rs, n) ==
    IF e.result
    THEN Result(IF KeyOf(p) = <<>> THEN "FileExistsError" ELSE "ok",
                cache, objs, bks, e.calls)
    ELSE IF KeyOf(p) = <<>> \/ create_parents
    THEN IF acl # "" /\ acl \notin buck_acls
         THEN Result("ValueError", cache, objs, bks, e.calls)
         ELSE MkdirCreate(e, cache, objs, bks, <<BucketOf(p)>>,
                          rs[n + Len(e.calls) + 1] = "ok" /\ BucketOf(p) \notin bks)
    ELSE MkdirLs(e, _ls(cache, objs, bks, isanon, <<BucketOf(p)>>, FALSE, rs,
                        n + Len(e.calls)),
                 objs, bks)

\* _mkdir(path, acl, create_parents).
_mkdir(cache, objs, bks, isanon, va, p, acl, create_parents, rs, n) ==
    IF p = <<>> THEN Result("ValueError", cache, objs, bks, <<>>)
    ELSE MkdirExists(_exists(cache, objs, bks, va, <<BucketOf(p)>>, rs, n),
                     cache, objs, bks, isanon, p, acl, create_parents, rs, n)

\* _rmdir(path): delete_bucket, which S3 refuses for a missing or non-empty
\* bucket; then the path and the root are invalidated.
_rmdir(cache, objs, bks, p, rs, n) ==
    LET rep == Reply(bks, p, rs, n)
        empty == ~\E k \in objs : BucketOf(k) = BucketOf(p)
        done == rep = "ok" /\ empty
        c1 == invalidate_cache(cache, p)
    IN  IF ~done
        THEN Result(IF rep = "ok" THEN "OSError" ELSE ErrorOf(rep), cache, objs, bks,
                    <<Call("delete_bucket", p, FALSE)>>)
        ELSE Result("ok", invalidate_cache(c1, <<>>), objs, bks \ {BucketOf(p)},
                    <<Call("delete_bucket", p, TRUE), Evict(cache, p), Evict(c1, <<>>)>>)

----------------------------------------------------------------------------
(* The filesystem as a state machine.                                      *)

Last(op, p, status, result, refresh, delimiter) ==
    [op |-> op, path |-> p, status |-> status, result |-> result,
     refresh |-> refresh, delimiter |-> delimiter]

Idle == Last("idle", <<>>, "ok", <<>>, FALSE, TRUE)

\* No write handle has been opened.
NoFile == [open |-> FALSE]

\* The remote side of a handle before any multipart session: the object's body
\* (a byte string, empty when the object does not exist), the session's state,
\* the part bodies uploaded to it by part number, and how many
\* complete_multipart_upload and abort_multipart_upload calls were issued for it.
NoSession(body) ==
    [body |-> body, session |-> "none", uploaded |-> <<>>, completes |-> 0, aborts |-> 0]

\* A new S3FileSystem (empty dircache) on a store that holds both buckets and
\* the objects of bucket "a".
Init ==
    /\ buckets = BucketNames
    /\ objects = WritePaths
    /\ dircache = EmptyCache
    /\ anon \in BOOLEAN
    /\ version_aware \in BOOLEAN
    /\ file = NoFile
    /\ remote = NoSession(<<>>)
    /\ trace = <<>>
    /\ last = Idle

\* The most remote calls one operation issues in the model.
MaxCalls == 8

Oks == [i \in 1..MaxCalls |-> "ok"]

\* The outcomes pre of an operation's first calls, completed with "ok".
Pad(pre) == pre \o SubSeq(Oks, Len(pre) + 1, Len(Oks))

\* The outcomes of the first calls of operation X, extended by each outcome of
\* its next call: none when X issues no further call after pre.
Ext(X(_), pre) ==
    IF Len(pre) < Len(Oks) /\ NumRemote(X(Pad(pre)).calls) > Len(pre)
    THEN {Append(pre, r) : r \in Outcomes} ELSE {}

Lvl(X(_), S) == UNION {Ext(X, pre) : pre \in S}

\* The outcome sequences of the runs of operation X: one for each way the
\* remote calls X issues can end.
Runs(X(_)) ==
    LET S1 == Lvl(X, {<<>>})
        S2 == Lvl(X, S1)
        S3 == Lvl(X, S2)
        S4 == Lvl(X, S3)
        S5 == Lvl(X, S4)
        S6 == Lvl(X, S5)
        S7 == Lvl(X, S6)
        S8 == Lvl(X, S7)
        S9 == Lvl(X, S8)
    IN  {Pad(pre) : pre \in {q \in {<<>>} \cup S1 \cup S2 \cup S3 \cup S4 \cup S5 \cup S6
                                     \cup S7 \cup S8 \cup S9 : Ext(X, q) = {}}}

\* A read operation ends: the cache may have changed, the store has not.
Reads(op, p, x, refresh, delimiter) ==
    /\ dircache' = x.cache
    /\ trace' = x.calls
    /\ last' = Last(op, p, x.status, x.out, refresh, delimiter)
    /\ UNCHANGED <<buckets, objects, anon, version_aware, hvars>>

\* The calls that write to the store or to a multipart session of it.
WritingMethods ==
    MutatingMethods \cup {"create_multipart_upload", "upload_part", "upload_part_copy"}

\* A mutation ends. The store refuses the writes of an anonymous client.
Mutates(op, p, x) ==
    /\ anon => \A i \in DOMAIN x.calls : x.calls[i].m \in WritingMethods => ~x.calls[i].ok
    /\ dircache' = x.cache
    /\ objects' = x.objs
    /\ buckets' = x.bks
    /\ trace' = x.calls
    /\ last' = Last(op, p, x.status, <<>>, FALSE, TRUE)
    /\ UNCHANGED <<anon, version_aware, hvars>>

\* ls(path, refresh=refresh).
Ls ==
    /\ last = Idle
    /\ \E p \in Paths, refresh \in BOOLEAN :
        \E rs \in Runs(LAMBDA r : _ls(dircache, objects, buckets, anon, p, refresh, r, 0)) :
            Reads("ls", p, _ls(dircache, objects, buckets, anon, p, refresh, rs, 0),
                  refresh, TRUE)

\* _lsdir(path, refresh, delimiter) called directly.
Lsdir ==
    /\ last = Idle
    /\ \E p \in Paths \ {<<>>}, refresh \in BOOLEAN, delimiter \in BOOLEAN :
        \E rs \in Runs(LAMBDA r : _lsdir(dircache, objects, buckets, p, refresh,
                                         delimiter, "", r, 0)) :
            Reads("lsdir", p,
                  _lsdir(dircache, objects, buckets, p, refresh, delimiter, "", rs, 0),
                  refresh, delimiter)

\* find(path, withdirs=withdirs, prefix=prefix).
Find ==
    /\ last = Idle
    /\ \E p \in Paths, withdirs \in BOOLEAN, prefix \in {"", "b"} :
        \E rs \in Runs(LAMBDA r : _find(dircache, objects, buckets, version_aware, p,
                                        withdirs, prefix, r, 0)) :
            Reads(IF prefix = "" THEN "find" ELSE "find_prefix", p,
                  _find(dircache, objects, buckets, version_aware, p, withdirs, prefix,
                        rs, 0),
                  FALSE, withdirs)

\* info(path, refresh=refresh).
Info ==
    /\ last = Idle
    /\ \E p \in Paths, refresh \in BOOLEAN :
        \E rs \in Runs(LAMBDA r : _info(dircache, objects, buckets, version_aware, p,
                                        refresh, r, 0)) :
            LET x == _info(dircache, objects, buckets, version_aware, p, refresh, rs, 0)
            IN  Reads("info", p,
                      [status |-> x.status, out |-> x.out, cache |-> dircache,
                       calls |-> x.calls], refresh, TRUE)

\* invalidate_cache(path) called by the user.
InvalidateCache ==
    /\ last = Idle
    /\ \E p \in Paths :
        Reads("invalidate_cache", p,
              [status |-> "ok", out |-> <<>>, cache |-> invalidate_cache(dircache, p),
               calls |-> <<Evict(dircache, p)>>], FALSE, TRUE)

\* invalidate_cache(None): the whole cache is cleared.
InvalidateAll ==
    /\ last = Idle
    /\ Reads("invalidate_all", <<>>,
          [status |-> "ok", out |-> <<>>, cache |-> EmptyCache,
           calls |-> <<[m |-> "invalidate_cache", path |-> <<>>, ok |-> TRUE,
                        keys |-> DOMAIN dircache]>>], FALSE, TRUE)

\* invalidate_cache(path) and then info(path, refresh=False).
InvalidateThenInfo ==
    /\ last = Idle
    /\ \E p \in Paths :
        LET c == invalidate_cache(dircache, p)
        IN  \E rs \in Runs(LAMBDA r : _info(c, objects, buckets, version_aware, p,
                                            FALSE, r, 0)) :
                LET x == _info(c, objects, buckets, version_aware, p, FALSE, rs, 0)
                IN  Reads("invalidate_info", p,
                          [status |-> x.status, out |-> x.out, cache |-> c,
                           calls |-> <<Evict(dircache, p)>> \o x.calls], FALSE, TRUE)

\* touch(path, truncate=truncate).
Touch ==
    /\ last = Idle
    /\ \E p \in WritePaths, truncate \in BOOLEAN :
        \E rs \in Runs(LAMBDA r : _touch(dircache, objects, buckets, version_aware, p,
                                         truncate, r, 0)) :
            Mutates("touch", p,
                    _touch(dircache, objects, buckets, version_aware, p, truncate, rs, 0))

\* pipe_file(path, data): data below the multipart threshold, or above it.
PipeFile ==
    /\ last = Idle
    /\ \E p \in WritePaths, big \in BOOLEAN :
        \E rs \in Runs(LAMBDA r : _pipe_file(dircache, objects, buckets, p, big, r, 0)) :
            Mutates(IF big THEN "pipe_file_multipart" ELSE "pipe_file", p,
                    _pipe_file(dircache, objects, buckets, p, big, rs, 0))

\* rm_file(path).
RmFile ==
    /\ last = Idle
    /\ \E p \in ObjPaths :
        \E rs \in Runs(LAMBDA r : _rm_file(dircache, objects, buckets, p, r, 0)) :
            Mutates("rm_file", p, _rm_file(dircache, objects, buckets, p, rs, 0))

\* _bulk_delete(pathlist); the record names the first path of the list.
BulkDelete ==
    /\ last = Idle
    /\ \E S \in SUBSET ObjPaths :
        LET pathlist == SelectSeq(AllKeys, LAMBDA k : k \in S)
        IN  \E rs \in Runs(LAMBDA r : _bulk_delete(dircache, objects, buckets,
                                                   pathlist, r, 0)) :
                Mutates("bulk_delete", IF S = {} THEN <<>> ELSE pathlist[1],
                        _bulk_delete(dircache, objects, buckets, pathlist, rs, 0))

\* mkdir(path, acl, create_parents).
Mkdir ==
    /\ last = Idle
    /\ \E p \in Paths, acl \in {"", "private", "bogus"}, create_parents \in BOOLEAN :
        \E rs \in Runs(LAMBDA r : _mkdir(dircache, objects, buckets, anon, version_aware,
                                         p, acl, create_parents, r, 0)) :
            Mutates("mkdir", p,
                    _mkdir(dircache, objects, buckets, anon, version_aware, p, acl,
                           create_parents, rs, 0))

\* rmdir(bucket).
Rmdir ==
    /\ last = Idle
    /\ \E b \in BucketNames :
        \E rs \in Runs(LAMBDA r : _rmdir(dircache, objects, buckets, <<b>>, r, 0)) :
            Mutates("rmdir", <<b>>, _rmdir(dircache, objects, buckets, <<b>>, rs, 0))

\* The operation's result is taken by the caller.
Return ==
    /\ last # Idle
    /\ last' = Idle
    /\ trace' = <<>>
    /\ UNCHANGED <<fsvars, hvars>>

Next ==
    \/ Ls \/ Lsdir \/ Find \/ Info \/ InvalidateCache \/ InvalidateAll
    \/ InvalidateThenInfo
    \/ Touch \/ PipeFile \/ RmFile \/ BulkDelete \/ Mkdir \/ Rmdir
    \/ Return

Spec == Init /\ [][Next]_vars

----------------------------------------------------------------------------
(* Byte strings. A byte is named by its place: the bytes written to the    *)
(* handle are numbered from 0 in the order they are written, the bytes of  *)
(* the object that existed before the handle are numbered below 0. A byte  *)
(* string is the sequence of its runs <<lo, hi>> of the consecutive bytes  *)
(* lo..hi-1, no two adjoining runs being consecutive. Sizes are counted in *)
(* MiB.                                                                    *)

Bytes(lo, hi) == IF lo < hi THEN << <<lo, hi>> >> ELSE <<>>

RECURSIVE BLen(_)
\* len(b)
BLen(b) == IF b = <<>> THEN 0 ELSE (b[1][2] - b[1][1]) + BLen(Tail(b))

\* a + b
BCat(a, b) ==
    IF a = <<>> THEN b
    ELSE IF b = <<>> THEN a
    ELSE IF a[Len(a)][2] = b[1][1]
    THEN SubSeq(a, 1, Len(a) - 1) \o << <<a[Len(a)][1], b[1][2]>> >> \o Tail(b)
    ELSE a \o b

RECURSIVE BTake(_, _)
\* b[:k], which is also what read(k) returns of the unread bytes b
BTake(b, k) ==
    IF k <= 0 \/ b = <<>> THEN <<>>
    ELSE IF b[1][2] - b[1][1] <= k
    THEN BCat(<<b[1]>>, BTake(Tail(b), k - (b[1][2] - b[1][1])))
    ELSE << <<b[1][1], b[1][1] + k>> >>

RECURSIVE BDrop(_, _)
\* b[k:], which is also what read(k) leaves unread of b
BDrop(b, k) ==
    IF b = <<>> THEN <<>>
    ELSE IF k <= 0 THEN b
    ELSE IF b[1][2] - b[1][1] <= k THEN BDrop(Tail(b), k - (b[1][2] - b[1][1]))
    ELSE << <<b[1][1] + k, b[1][2]>> >> \o Tail(b)

----------------------------------------------------------------------------
(* The write handle S3File. The handle is opened on FilePath. An operation *)
(* works on w: the handle f, the remote side s3 of it, the filesystem's    *)
(* cache and store, the calls made so far and the status, which is "ok"    *)
(* until an exception is raised; what was done before the exception stays. *)

\* S3File.part_min, in MiB.
part_min == 5

\* S3File.part_max, in MiB.
part_max == 5 * 1024

FilePath == <<"a", "b", "c">>

\* The handle after AbstractBufferedFile.__init__: offset -1 is None, mpu 0 is
\* None, parts <<>> is None or []. hasbuf is "buffer is not None". What was
\* asked of the handle: written is the number of bytes the caller has written
\* and writes the number of its writes, failures the number of remote calls
\* that failed, puts and creates the numbers of put_object and
\* create_multipart_upload calls issued, clean whether no operation has raised,
\* and phase how far the handle is through writes, close and commit in this
\* order ("other" once it has left this order or an operation has raised).
NewFile(mode, blocksize, autocommit) ==
    [open |-> TRUE, mode |-> mode, blocksize |-> blocksize, autocommit |-> autocommit,
     append_block |-> FALSE, loc |-> 0, buffer |-> <<>>, hasbuf |-> TRUE, offset |-> -1,
     forced |-> FALSE, closed |-> FALSE, mpu |-> 0, parts |-> <<>>,
     written |-> 0, writes |-> 0, failures |-> 0, puts |-> 0, creates |-> 0,
     clean |-> TRUE, phase |-> "writing"]

\* The record of a remote call of the handle: part is the PartNumber and parts
\* the part list it was issued with.
FCall(m, ok, part, parts) ==
    [m |-> m, path |-> FilePath, ok |-> ok, keys |-> {}, part |-> part, parts |-> parts]

\* The outcome of the next remote call.
Out(w, rs) == rs[NumRemote(w.calls) + 1]

\* A call on the multipart session is answered only while the session is open.
SessionAnswers(w, rs) == Out(w, rs) = "ok" /\ w.s3.session = "open"

HandleError(w, e) == [w EXCEPT !.status = e]

\* The call c is issued; a call that fails raises.
Issue(w, c) ==
    [w EXCEPT !.calls = Append(@, c), !.status = IF c.ok THEN @ ELSE "error"]

\* _initiate_upload lines 1860-1865.
CreateMpu(w, rs) ==
    IF Out(w, rs) = "ok"
    THEN Issue([w EXCEPT !.f.mpu = 1, !.s3.session = "open"],
               FCall("create_multipart_upload", TRUE, 0, <<>>))
    ELSE Issue(w, FCall("create_multipart_upload", FALSE, 0, <<>>))

\* A mutant of the part copy: the existing object is not copied.
CopyPart_skipped(w, rs) == w

\* _initiate_upload lines 1867-1879: in append mode the object becomes part 1.
CopyPart(w, rs) ==
    IF w.status # "ok" \/ ~w.f.append_block THEN w
    ELSE IF SessionAnswers(w, rs)
    THEN Issue([w EXCEPT !.f.parts = Append(@, [PartNumber |-> 1, ETag |-> w.s3.body]),
                         !.s3.uploaded = Put(@, 1, w.s3.body)],
               FCall("upload_part_copy", TRUE, 1, <<>>))
    ELSE Issue(w, FCall("upload_part_copy", FALSE, 1, <<>>))

\* A mutant of _initiate_upload: a session is created for a small file too.
_initiate_upload_always(w, rs) == CopyPart(CreateMpu([w EXCEPT !.f.parts = <<>>], rs), rs)

\* S3File._initiate_upload.
_initiate_upload(w, rs) ==
    IF w.f.autocommit /\ ~w.f.append_block /\ w.f.loc < w.f.blocksize THEN w
    ELSE CopyPart(CreateMpu([w EXCEPT !.f.parts = <<>>], rs), rs)

\* A mutant of _abort_mpu: the session is left alone.
_abort_mpu_never(w, rs) == w

\* S3File._abort_mpu.
_abort_mpu(w, rs) ==
    IF w.f.mpu = 0 THEN w
    ELSE IF SessionAnswers(w, rs)
    THEN Issue([w EXCEPT !.f.mpu = 0, !.s3.session = "aborted", !.s3.aborts = @ + 1],
               FCall("abort_multipart_upload", TRUE, 0, <<>>))
    ELSE Issue([w EXCEPT !.s3.aborts = @ + 1],
               FCall("abort_multipart_upload", FALSE, 0, <<>>))

\* commit line 1994 with the result t of fs.touch(path): an empty object.
TouchDone(w, t) ==
    [w EXCEPT !.status = t.status, !.cache = t.cache, !.objs = t.objs,
              !.calls = @ \o t.calls,
              !.s3.body = IF t.status = "ok" THEN <<>> ELSE @]

\* A mutant of the empty commit: no object is created.
CommitTouch_skipped(w, rs) == w

\* commit lines 1993-1994 after _abort_mpu.
CommitTouch(w, rs) ==
    IF w.status # "ok" THEN w
    ELSE TouchDone(w, _touch(w.cache, w.objs, w.bks, w.va, FilePath, TRUE, rs,
                             NumRemote(w.calls)))

\* commit lines 1998-2006: the whole buffer in one put_object.
CommitPut(w, rs) ==
    IF Out(w, rs) = "ok"
    THEN Issue([w EXCEPT !.s3.body = w.f.buffer, !.objs = @ \cup {FilePath}],
               FCall("put_object", TRUE, 0, <<>>))
    ELSE Issue(w, FCall("put_object", FALSE, 0, <<>>))

RECURSIVE Assembled(_, _)
\* The object S3 assembles of a part list: the uploaded bodies in list order.
Assembled(parts, uploaded) ==
    IF parts = <<>> THEN <<>>
    ELSE BCat(Assembled(SubSeq(parts, 1, Len(parts) - 1), uploaded),
              uploaded[parts[Len(parts)].PartNumber])

\* The part lists S3 accepts: ascending part numbers, each uploaded, each with
\* the ETag of what was uploaded under the number.
ValidParts(parts, uploaded) ==
    \A i \in DOMAIN parts :
        /\ parts[i].PartNumber \in DOMAIN uploaded
        /\ uploaded[parts[i].PartNumber] = parts[i].ETag
        /\ i > 1 => parts[i - 1].PartNumber < parts[i].PartNumber

\* commit lines 2011-2018: complete_multipart_upload with self.parts.
CommitComplete(w, rs) ==
    IF w.f.mpu = 0 THEN HandleError(w, "TypeError")
    ELSE IF SessionAnswers(w, rs) /\ ValidParts(w.f.parts, w.s3.uploaded)
    THEN Issue([w EXCEPT !.s3.body = Assembled(w.f.parts, w.s3.uploaded),
                         !.s3.session = "completed", !.s3.completes = @ + 1,
                         !.objs = @ \cup {FilePath}],
               FCall("complete_multipart_upload", TRUE, 0, w.f.parts))
    ELSE Issue([w EXCEPT !.s3.completes = @ + 1],
               FCall("complete_multipart_upload", FALSE, 0, w.f.parts))

\* A mutant of the test: a cached listing is taken to hold the child.
LacksChild_never(cache, dir, child) == FALSE

\* commit lines 2028-2031: whether the ancestor dir, which is cached, lacks the
\* entry of its child on the way to the path.
LacksChild(cache, dir, child) ==
    /\ dir \in DOMAIN cache
    /\ ~\E j \in DOMAIN cache[dir] : cache[dir][j].name = child

RECURSIVE CommitWalk(_, _, _)
\* commit lines 2025-2032: the walk down the path, at the ancestor of i segments.
CommitWalk(w, p, i) ==
    IF i >= Len(p) THEN w
    ELSE CommitWalk(IF LacksChild(w.cache, SubSeq(p, 1, i), SubSeq(p, 1, i + 1))
                    THEN [w EXCEPT !.cache = invalidate_cache(@, SubSeq(p, 1, i)),
                                   !.calls = Append(@, Evict(w.cache, SubSeq(p, 1, i)))]
                    ELSE w,
                    p, i + 1)

\* A mutant of the end of commit: it is reached after a failed call too.
CommitEnd_always(w) ==
    CommitWalk([w EXCEPT !.f.hasbuf = FALSE, !.f.buffer = <<>>], FilePath, 1)

\* commit lines 2020-2032: the buffer is dropped and the cache invalidated.
CommitEnd(w) ==
    IF w.status # "ok" THEN w
    ELSE CommitWalk([w EXCEPT !.f.hasbuf = FALSE, !.f.buffer = <<>>], FilePath, 1)

\* S3File.commit.
commit(w, rs) ==
    IF w.f.loc = 0
    THEN IF w.f.hasbuf THEN CommitEnd(CommitTouch(_abort_mpu(w, rs), rs))
         ELSE IF w.va THEN HandleError(w, "UnboundLocalError")
         ELSE CommitEnd(w)
    ELSE IF w.f.parts = <<>>
    THEN IF w.f.hasbuf THEN CommitEnd(CommitPut(w, rs))
         ELSE HandleError(w, "RuntimeError")
    ELSE CommitEnd(CommitComplete(w, rs))

\* A mutant of the part number: parts are numbered from 0.
UploadPartNumber_from_zero(parts) == Len(parts)

\* _upload_chunk line 1970: part = len(self.parts) + 1.
UploadPartNumber(parts) == Len(parts) + 1

\* _upload_chunk lines 1970-1982: upload_part of body, appended to self.parts.
upload_part(w, body, rs) ==
    IF w.status # "ok" THEN w
    ELSE IF w.f.mpu = 0 THEN HandleError(w, "TypeError")
    ELSE IF SessionAnswers(w, rs)
    THEN Issue([w EXCEPT !.f.parts = Append(@, [PartNumber |-> UploadPartNumber(w.f.parts),
                                                ETag |-> body]),
                         !.s3.uploaded = Put(@, UploadPartNumber(w.f.parts), body)],
               FCall("upload_part", TRUE, UploadPartNumber(w.f.parts), <<>>))
    ELSE Issue(w, FCall("upload_part", FALSE, UploadPartNumber(w.f.parts), <<>>))

\* A mutant of the merge: the short tail is put in front of the block.
Remainder_tail_first(data0, data1) == BCat(data1, data0)

\* _upload_chunk line 1961: remainder = data0 + data1.
Remainder(data0, data1) == BCat(data0, data1)

\* _upload_chunk lines 1962 and 1967: partition = remainder_size // 2, where
\* remainder_size = self.blocksize + data1_size.
Partition(blocksize, data1) == (blocksize + BLen(data1)) \div 2

RECURSIVE UploadLoop(_, _, _, _)
RECURSIVE UploadTurn(_, _, _, _, _)
\* _upload_chunk line 1956, "while data1": rest is the buffer not yet read.
UploadLoop(w, data1, rest, rs) ==
    IF w.status # "ok" \/ data1 = <<>> THEN w
    ELSE UploadTurn(w, data1, BTake(rest, w.f.blocksize), BDrop(rest, w.f.blocksize), rs)

\* _upload_chunk lines 1957-1982: one turn of the loop. A short data1 is merged
\* with data0 when the two fit a part, else the two are split in half.
UploadTurn(w, data0, data1, rest, rs) ==
    IF 0 < BLen(data1) /\ BLen(data1) < w.f.blocksize
    THEN IF w.f.blocksize + BLen(data1) <= part_max
         THEN UploadLoop(upload_part(w, Remainder(data0, data1), rs), <<>>, rest, rs)
         ELSE UploadLoop(upload_part(w, BTake(Remainder(data0, data1),
                                              Partition(w.f.blocksize, data1)), rs),
                         BDrop(Remainder(data0, data1), Partition(w.f.blocksize, data1)),
                         rest, rs)
    ELSE UploadLoop(upload_part(w, data0, rs), data1, rest, rs)

\* _upload_chunk lines 1984-1985.
UploadEnd(w, final, rs) ==
    IF w.status = "ok" /\ w.f.autocommit /\ final THEN commit(w, rs) ELSE w

\* S3File._upload_chunk(final); line 1942 reads the buffer, which raises when
\* the buffer is None.
_upload_chunk(w, final, rs) ==
    IF ~w.f.hasbuf THEN HandleError(w, "AttributeError")
    ELSE UploadEnd(IF w.f.autocommit /\ ~w.f.append_block /\ final
                      /\ w.f.loc < w.f.blocksize
                   THEN w
                   ELSE UploadLoop(w, BTake(w.f.buffer, w.f.blocksize),
                                   BDrop(w.f.buffer, w.f.blocksize), rs),
                   final, rs)

\* flush: after a flush that is not final the buffer starts anew.
FlushReset(w, force) ==
    IF w.status = "ok" /\ ~force
    THEN [w EXCEPT !.f.offset = @ + BLen(w.f.buffer), !.f.buffer = <<>>]
    ELSE w

\* flush: the chunk is uploaded unless initiating the upload raised.
FlushUpload(w, force, rs) ==
    IF w.status # "ok" THEN w ELSE FlushReset(_upload_chunk(w, force, rs), force)

\* flush: a handle whose upload could not be initiated is closed.
FlushInit(w) == IF w.status # "ok" THEN [w EXCEPT !.f.closed = TRUE] ELSE w

\* flush: nothing is sent while the buffer is below the block size, unless
\* forced; the first flush that sends initiates the upload.
FlushBody(w, force, rs) ==
    IF ~force /\ ~w.f.hasbuf THEN HandleError(w, "AttributeError")
    ELSE IF ~force /\ BLen(w.f.buffer) < w.f.blocksize THEN w
    ELSE FlushUpload(IF w.f.offset = -1
                     THEN FlushInit(_initiate_upload([w EXCEPT !.f.offset = 0], rs))
                     ELSE w,
                     force, rs)

\* AbstractBufferedFile.flush(force), which calls _initiate_upload and
\* _upload_chunk of S3File.
flush(w, force, rs) ==
    IF w.f.closed THEN HandleError(w, "ValueError")
    ELSE IF force /\ w.f.forced THEN HandleError(w, "ValueError")
    ELSE FlushBody([w EXCEPT !.f.forced = @ \/ force], force, rs)

\* write: the buffer is flushed once it holds a block.
WriteFlush(w, rs) ==
    IF BLen(w.f.buffer) >= w.f.blocksize THEN flush(w, FALSE, rs) ELSE w

\* AbstractBufferedFile.write(data) for data of k bytes: the next k bytes of
\* what the caller writes.
write(w, k, rs) ==
    IF w.f.closed \/ w.f.forced THEN HandleError(w, "ValueError")
    ELSE IF ~w.f.hasbuf THEN HandleError(w, "AttributeError")
    ELSE WriteFlush([w EXCEPT !.f.buffer = BCat(@, Bytes(w.f.written, w.f.written + k)),
                              !.f.loc = @ + k, !.f.written = @ + k], rs)

\* close: the path and its parent are invalidated and the handle is closed.
CloseEnd(w) ==
    IF w.status # "ok" THEN w
    ELSE [w EXCEPT !.f.closed = TRUE,
                   !.cache = invalidate_cache(invalidate_cache(@, FilePath),
                                              _parent(FilePath)),
                   !.calls = @ \o <<Evict(w.cache, FilePath),
                                    Evict(invalidate_cache(w.cache, FilePath),
                                          _parent(FilePath))>>]

\* AbstractBufferedFile.close(): the final flush, unless it was forced before.
close(w, rs) ==
    IF w.f.closed THEN w
    ELSE CloseEnd(IF ~w.f.forced THEN flush(w, TRUE, rs) ELSE w)

\* discard line 2036.
DiscardEnd(w) ==
    IF w.status # "ok" THEN w ELSE [w EXCEPT !.f.hasbuf = FALSE, !.f.buffer = <<>>]

\* S3File.discard.
discard(w, rs) == DiscardEnd(_abort_mpu(w, rs))

\* __init__ lines 1841-1846 with the object's size: a small object is read
\* (get_object) and written to the buffer, a large one is left for a part copy.
OpenSized(w, size, rs) ==
    IF size >= part_min THEN [w EXCEPT !.f.append_block = TRUE, !.f.loc = size]
    ELSE IF Out(w, rs) = "ok"
    THEN [w EXCEPT !.f.buffer = w.s3.body, !.f.loc = size,
                   !.calls = Append(@, Call("get_object", FilePath, TRUE))]
    ELSE [w EXCEPT !.f = NoFile, !.status = "error",
                   !.calls = Append(@, Call("get_object", FilePath, FALSE))]

\* __init__ line 1840 with the result i of s3.info(path).
OpenInfo(w, i, rs) ==
    IF i.status # "ok"
    THEN [w EXCEPT !.f = NoFile, !.status = i.status, !.calls = @ \o i.calls]
    ELSE OpenSized([w EXCEPT !.calls = @ \o i.calls], BLen(w.s3.body), rs)

\* __init__ line 1839 with the answer e of s3.exists(path).
OpenAppend(w, e, rs) ==
    IF e.status # "ok" THEN [w EXCEPT !.f = NoFile, !.status = e.status, !.calls = e.calls]
    ELSE IF ~e.result THEN [w EXCEPT !.calls = e.calls]
    ELSE OpenInfo([w EXCEPT !.calls = e.calls],
                  _info(w.cache, w.objs, w.bks, w.va, FilePath, FALSE, rs,
                        NumRemote(e.calls)), rs)

\* S3File.__init__ for the modes "wb" and "ab".
open(w, mode, blocksize, autocommit, rs) ==
    IF blocksize < part_min THEN HandleError(w, "ValueError")
    ELSE IF mode = "ab"
    THEN OpenAppend([w EXCEPT !.f = NewFile(mode, blocksize, autocommit)],
                    _exists(w.cache, w.objs, w.bks, w.va, FilePath, rs, 0), rs)
    ELSE [w EXCEPT !.f = NewFile(mode, blocksize, autocommit)]

----------------------------------------------------------------------------
(* The write handle as a state machine.                                    *)

\* The number of writes to a handle.
MaxWrites == 1

\* The block sizes a handle is opened with: below the least accepted one, the
\* least one, the largest part size and above it.
BlockSizes == {part_min - 1, part_min, part_max, part_max + 1}

\* The sizes of one write: one, a block, a block and one, two blocks and one.
WriteSizes(blocksize) == {1, blocksize, blocksize + 1, 2 * blocksize + 1}

\* The number of remote calls that fail in the life of a handle.
MaxFailures == 1

\* The sizes of the object found at the path: 0 is no object, one below
\* part_min and one above.
ExistingSizes == {0, part_min - 1, part_min + 2}

\* The listings of the ancestors of the path that are cached when the handle
\* is opened: none, or, beside the larger object, those of the parent and of
\* the bucket.
CachedAncestors(size) ==
    IF size < part_min THEN {{}}
    ELSE {{}, {_parent(FilePath), _parent(_parent(FilePath))}}

InitFile ==
    /\ buckets = BucketNames
    /\ anon = FALSE
    /\ version_aware = FALSE
    /\ \E size \in ExistingSizes :
        /\ objects = IF size = 0 THEN WritePaths \ {FilePath} ELSE WritePaths
        /\ remote = NoSession(Bytes(0 - size, 0))
        /\ \E S \in CachedAncestors(size) :
            dircache = [d \in S |-> ListingOf(objects, d, TRUE, "")]
    /\ file = NoFile
    /\ trace = <<>>
    /\ last = Idle

\* What an operation of the handle starts from.
World ==
    [f |-> file, s3 |-> remote, cache |-> dircache, objs |-> objects, bks |-> buckets,
     va |-> version_aware, calls |-> <<>>, status |-> "ok"]

\* The phase after the operation op has ended with status.
NextPhase(phase, op, status) ==
    IF status # "ok" THEN "other"
    ELSE IF op \in {"open", "write", "flush", "flush_force"} THEN phase
    ELSE IF op = "close" /\ phase = "writing" THEN "closed"
    ELSE IF op = "commit" /\ phase = "closed" THEN "committed"
    ELSE "other"

\* The remote calls of calls that failed.
Failures(calls) == Len(SelectSeq(calls, LAMBDA c : IsRemote(c) /\ ~c.ok))

\* The remote calls of calls to the method m.
Issued(calls, m) == Len(SelectSeq(calls, LAMBDA c : IsRemote(c) /\ c.m = m))

\* What was asked of the handle f, after the operation op that ended in x.
Asked(f, op, x) ==
    [f EXCEPT !.writes = IF op = "write" THEN @ + 1 ELSE @,
              !.failures = @ + Failures(x.calls),
              !.puts = @ + Issued(x.calls, "put_object"),
              !.creates = @ + Issued(x.calls, "create_multipart_upload"),
              !.clean = @ /\ x.status = "ok",
              !.phase = NextPhase(@, op, x.status)]

\* An operation of the handle ends in x.
Handles(op, x) ==
    /\ (IF file.open THEN file.failures ELSE 0) + Failures(x.calls) <= MaxFailures
    /\ file' = IF x.f.open THEN Asked(x.f, op, x) ELSE x.f
    /\ remote' = x.s3
    /\ dircache' = x.cache
    /\ objects' = x.objs
    /\ trace' = x.calls
    /\ last' = Last(op, FilePath, x.status, <<>>, FALSE, TRUE)
    /\ UNCHANGED <<buckets, anon, version_aware>>

\* The modes a handle is opened in with a block size: append mode is opened
\* with the smaller block sizes only.
OpenModes(blocksize) == IF blocksize > part_min THEN {"wb"} ELSE {"wb", "ab"}

\* open(path, mode, block_size=blocksize, autocommit=autocommit).
Open ==
    /\ last = Idle
    /\ ~file.open
    /\ \E blocksize \in BlockSizes, autocommit \in BOOLEAN :
       \E mode \in OpenModes(blocksize) :
        \E rs \in Runs(LAMBDA r : open(World, mode, blocksize, autocommit, r)) :
            Handles("open", open(World, mode, blocksize, autocommit, rs))

\* The handle takes an operation.
Usable == last = Idle /\ file.open

\* f.write(data).
Write ==
    /\ Usable
    /\ file.writes < MaxWrites
    /\ \E k \in WriteSizes(file.blocksize) :
        \E rs \in Runs(LAMBDA r : write(World, k, r)) :
            Handles("write", write(World, k, rs))

\* f.flush(force).
Flush ==
    /\ Usable
    /\ \E force \in BOOLEAN :
        \E rs \in Runs(LAMBDA r : flush(World, force, r)) :
            Handles(IF force THEN "flush_force" ELSE "flush", flush(World, force, rs))

\* f.close().
Close ==
    /\ Usable
    /\ \E rs \in Runs(LAMBDA r : close(World, r)) : Handles("close", close(World, rs))

\* f.commit().
Commit ==
    /\ Usable
    /\ \E rs \in Runs(LAMBDA r : commit(World, r)) : Handles("commit", commit(World, rs))

\* f.discard().
Discard ==
    /\ Usable
    /\ \E rs \in Runs(LAMBDA r : discard(World, r)) : Handles("discard", discard(World, rs))

NextFile == Open \/ Write \/ Flush \/ Close \/ Commit \/ Discard \/ Return

SpecFile == InitFile /\ [][NextFile]_vars

----------------------------------------------------------------------------
(* Properties of the directory cache, checked under Spec.                  *)

\* The path and its ancestors below the root: a/b/c, a/b and a.
Chain(p) == {SubSeq(p, 1, n) : n \in 1..Len(p)}

\* The operations that change the store.
MutatingOps ==
    {"touch", "pipe_file", "pipe_file_multipart", "rm_file", "bulk_delete", "mkdir",
     "rmdir"}

\* The operation that has just ended issued a remote call.
Probed == \E i \in DOMAIN trace : IsRemote(trace[i])

\* C1: invalidate_cache(p) for a non-empty path p removes the
\* entries of p and of every ancestor of p up to and including the root
\* entry "", and leaves every other entry unchanged.
C1_EvictsChainAndRoot ==
    [][(last'.op = "invalidate_cache" /\ last'.path # <<>>) =>
          dircache' = [k \in (DOMAIN dircache) \ (Chain(last'.path) \cup {<<>>})
                          |-> dircache[k]]]_vars

\* C2: in a mutating operation a cache entry is evicted only after a mutating
\* remote call of the operation has returned success, and an operation whose
\* mutating call failed has evicted nothing.
C2_EvictOnlyAfterSuccess ==
    last.op \in MutatingOps =>
        \A i \in DOMAIN trace :
            (trace[i].m = "invalidate_cache" /\ trace[i].keys # {}) =>
                \E j \in 1..(i - 1) : trace[j].m \in MutatingMethods /\ trace[j].ok

\* C3: when touch, pipe_file (of any size) or rm_file returns success for a
\* path, the cache holds no listing of the path's parent; these operations
\* store no listing, so a listing held then was stored before they began.
C3_ParentNotCachedAfterSuccess ==
    (last.op \in {"touch", "pipe_file", "pipe_file_multipart", "rm_file"}
        /\ last.status = "ok")
    => _parent(last.path) \notin DOMAIN dircache

\* C4: in every reachable state no key of the directory cache maps to an
\* empty listing.
C4_NoEmptyListing == \A k \in DOMAIN dircache : dircache[k] # <<>>

\* C5: _lsdir stores its result if and only if the delimiter is non-empty and
\* the result is non-empty; with an empty delimiter it always issues the
\* remote listing, returns what the store answered and not the cached entry,
\* and writes no cache entry.
C5_LsdirStoresIffDelimitedNonEmpty ==
    [][last'.op = "lsdir" =>
          /\ dircache' = IF last'.status = "ok" /\ last'.delimiter /\ last'.result # <<>>
                         THEN Put(dircache, last'.path, last'.result)
                         ELSE dircache
          /\ ~last'.delimiter =>
                /\ Len(trace') = 1
                /\ trace'[1].m = "list_objects_v2"
                /\ trace'[1].ok =>
                      last'.result = ListingOf(objects, last'.path, FALSE, "")]_vars

\* _lsdir with an empty delimiter has listed a path whose listing was cached:
\* the remote call was issued and the cached listing is still the one that
\* was stored with a delimiter.
C5_Witness ==
    /\ last.op = "lsdir"
    /\ ~last.delimiter
    /\ ~last.refresh
    /\ last.status = "ok"
    /\ last.path \in DOMAIN dircache
    /\ last.result # <<>>
    /\ last.result # dircache[last.path]
    /\ Probed

\* C6: for every path p below the root, a bare bucket included,
\* info(p) without refresh right after invalidate_cache(p) issues a remote
\* probe.
C6_InfoAfterInvalidateProbes ==
    (last.op = "invalidate_info" /\ last.path # <<>>) => Probed

----------------------------------------------------------------------------
(* Properties of the write handle, checked under SpecFile.                 *)

\* The handle was written, closed and, without autocommit, committed, in this
\* order, and no operation has raised.
Finished ==
    /\ file.open
    /\ \/ file.autocommit /\ file.phase = "closed"
       \/ ~file.autocommit /\ file.phase = "committed"

\* The parts of the handle but the last.
InnerParts == IF file.open THEN 1..(Len(file.parts) - 1) ELSE {}

\* The call c has added a part to the part list.
AddsPart(c) == IsRemote(c) /\ c.m \in {"upload_part", "upload_part_copy"} /\ c.ok

\* len(self.parts) when the call at position j of the trace was issued.
PartsAt(j) == Len(file.parts) - Cardinality({i \in j..Len(trace) : AddsPart(trace[i])})

C8_PartsWithinLimits ==
    \A i \in InnerParts :
        /\ part_min <= BLen(file.parts[i].ETag)
        /\ BLen(file.parts[i].ETag) <= part_max

\* C9: in every reachable state of a write handle the committed parts have
\* the part numbers 1..n in list order, the part copy of append mode being
\* part 1; each upload_part is issued with the number len(parts) + 1; and
\* complete_multipart_upload is given exactly that list.
C9_PartNumbersContiguous ==
    file.open =>
        /\ \A i \in DOMAIN file.parts : file.parts[i].PartNumber = i
        /\ \A j \in DOMAIN trace :
            /\ (IsRemote(trace[j]) /\ trace[j].m = "upload_part")
                  => trace[j].part = PartsAt(j) + 1
            /\ (IsRemote(trace[j]) /\ trace[j].m = "complete_multipart_upload")
                  => trace[j].parts = file.parts

\* A handle opened in append mode on a large object has completed the upload
\* of three parts: the copy of the object and two uploaded ones.
C9_Witness ==
    /\ file.open
    /\ file.append_block
    /\ Len(file.parts) = 3
    /\ \E j \in DOMAIN trace :
        /\ trace[j].m = "complete_multipart_upload"
        /\ trace[j].ok
        /\ trace[j].parts = file.parts

\* C10: for the multipart session of a handle, over any sequence of write,
\* flush, close, commit and discard, complete_multipart_upload and
\* abort_multipart_upload are never both issued, and after a close, commit or
\* discard that ended a sequence in which no operation raised, one of them
\* has been issued.
C10_CompleteXorAbort ==
    (file.open /\ remote.session # "none") =>
        /\ ~(remote.completes > 0 /\ remote.aborts > 0)
        /\ (file.clean /\ (Finished \/ ~file.hasbuf))
              => remote.completes + remote.aborts = 1

\* The handle is not seeded from a large object, its position (the bytes it
\* has received) is below the block size, and it was closed after its writes
\* with no operation raising.
SmallClosed ==
    /\ file.open
    /\ ~file.append_block
    /\ file.loc < file.blocksize
    /\ file.phase = "closed"

IsCall(j, m) == j \in DOMAIN trace /\ IsRemote(trace[j]) /\ trace[j].m = m

\* The size of the object the handle was opened on in append mode.
ExistingSize == file.loc - file.written

\* C12: a handle opened in append mode on an object of at least 5 MiB issues
\* upload_part_copy of the object as part 1 right after
\* create_multipart_upload and before any upload_part, and uploads the written
\* bytes as the parts from 2 on, so that the completed object is the existing
\* bytes followed by the written ones; on a smaller object it issues no part
\* copy and holds the existing bytes in the buffer ahead of the written ones.
C12_AppendSeedsPartOne ==
    (file.open /\ file.mode = "ab") =>
        /\ file.append_block =>
            /\ ExistingSize >= part_min
            /\ \A j \in DOMAIN trace :
                /\ (IsCall(j, "create_multipart_upload") /\ trace[j].ok)
                      => (IsCall(j + 1, "upload_part_copy") /\ trace[j + 1].part = 1)
                /\ IsCall(j, "upload_part")
                      => (trace[j].part >= 2 /\ file.parts[1].PartNumber = 1)
            /\ Finished => remote.body = Bytes(0 - ExistingSize, file.written)
        /\ ~file.append_block =>
            /\ ExistingSize < part_min
            /\ \A j \in DOMAIN trace : ~IsCall(j, "upload_part_copy")
            /\ (file.hasbuf /\ file.offset = -1)
                  => file.buffer = Bytes(0 - ExistingSize, file.written)

\* In append mode on a large object one write has created the session, copied
\* the object as part 1 and uploaded the first written block as part 2.
C12_Witness ==
    /\ file.open
    /\ file.append_block
    /\ IsCall(1, "create_multipart_upload")
    /\ IsCall(2, "upload_part_copy")
    /\ IsCall(3, "upload_part")
    /\ trace[3].ok
    /\ trace[3].part = 2

\* What C13 says of a commit at position 0 that starts with the handle f and
\* ends with status, the calls and the store of the primed state: the session
\* f holds is aborted, by the first call, no session is completed, and a
\* commit that returns has created the empty object with one put_object.
EmptyCommit(f, calls, status, objs, body) ==
    /\ Issued(calls, "complete_multipart_upload") = 0
    /\ Issued(calls, "abort_multipart_upload") = (IF f.mpu # 0 THEN 1 ELSE 0)
    /\ f.mpu # 0 => calls[1].m = "abort_multipart_upload"
    /\ status = "ok" =>
        /\ Issued(calls, "put_object") = 1
        /\ FilePath \in objs
        /\ body = <<>>

\* The commits of a step: commit itself, and the final flush of a handle with
\* autocommit that holds its buffer.
CommitsAtZero ==
    /\ file.open
    /\ file.loc = 0
    /\ \/ last'.op = "commit"
       \/ /\ last'.op \in {"close", "flush_force"}
          /\ file.autocommit /\ file.hasbuf /\ ~file.forced /\ ~file.closed

\* C13 as stated: commit on a write handle to which no byte was written
\* (position 0) aborts the open multipart session if there is one, creates the
\* empty object with a single put (touch), and never issues
\* complete_multipart_upload, with autocommit or without.
C13_EmptyCommitTouches ==
    [][CommitsAtZero =>
          EmptyCommit(file, trace', last'.status, objects', remote'.body)]_vars

\* C13 as amended: commit on a write handle to which no byte was written
\* (position 0) and that still holds its buffer (it was neither committed nor
\* discarded before) aborts the open multipart session if there is one,
\* creates the empty object with a single put (touch), and never issues
\* complete_multipart_upload, with autocommit or without.
C13_EmptyCommitTouchesOnce ==
    [][(CommitsAtZero /\ file.hasbuf) =>
          EmptyCommit(file, trace', last'.status, objects', remote'.body)]_vars

\* commit on a handle without autocommit whose final flush had created a
\* session for no bytes: the session was aborted and the empty object put.
C13_Witness ==
    /\ last.op = "commit"
    /\ last.status = "ok"
    /\ file.loc = 0
    /\ IsCall(1, "abort_multipart_upload")
    /\ IsCall(2, "put_object")
    /\ remote.session = "aborted"
    /\ remote.body = <<>>

\* complete_multipart_upload has failed in the step.
CompleteFails ==
    \E j \in DOMAIN trace' : /\ IsRemote(trace'[j])
                             /\ trace'[j].m = "complete_multipart_upload"
                             /\ ~trace'[j].ok

\* A complete_multipart_upload of the handle's session has failed and the
\* session is still open.
CompleteFailed ==
    file.open /\ file.mpu # 0 /\ remote.completes > 0 /\ remote.session = "open"

\* C14: when complete_multipart_upload fails during commit, commit raises and
\* issues no abort_multipart_upload, the handle still holds the upload id, its
\* part list and the buffer it held, the directory cache is unchanged, and a
\* discard() that follows issues the abort for the upload id.
C14_FailedCompleteKeepsSession ==
    [][/\ CompleteFails =>
            /\ last'.status # "ok"
            /\ Issued(trace', "abort_multipart_upload") = 0
            /\ file'.mpu # 0
            /\ file'.parts # <<>>
            /\ file'.hasbuf = file.hasbuf
            /\ file'.buffer = file.buffer
            /\ last'.op = "commit" => (file'.mpu = file.mpu /\ file'.parts = file.parts)
            /\ dircache' = dircache
            /\ remote'.session # "aborted"
            /\ remote.session = "open" => remote'.session = "open"
       /\ (CompleteFailed /\ last'.op = "discard") =>
            /\ trace'[1].m = "abort_multipart_upload"
            /\ trace'[1].ok => (remote'.session = "aborted" /\ file'.mpu = 0)]_vars

\* discard() after a commit whose complete_multipart_upload failed has aborted
\* the session.
C14_Witness ==
    /\ last.op = "discard"
    /\ last.status = "ok"
    /\ remote.completes = 1
    /\ remote.aborts = 1
    /\ remote.session = "aborted"
    /\ file.parts # <<>>
    /\ file.written > 0
    /\ file.mpu = 0

\* The fields of the handle that are the program's.
Held(f) ==
    <<f.mpu, f.parts, f.hasbuf, f.buffer, f.loc, f.offset, f.forced, f.closed,
      f.append_block>>

----------------------------------------------------------------------------
(* _call_s3: the attempts of one remote call.                              *)

\* S3FileSystem.retries.
retries == 5

\* How one attempt of the remote method ends: as a call ends, or by a timeout
\* (socket.timeout, the one error of S3_RETRYABLE_ERRORS).
Answers == Outcomes \cup {"timeout"}

\* The record of one attempt of method m.
Attempt(m, answer) ==
    [m |-> m, path |-> <<>>, ok |-> answer = "ok", keys |-> {}, answer |-> answer]

\* A mutant of the loop bound: one attempt more.
Exhausted_one_more(n, i) == i > n

\* _call_s3 line 244, "for i in range(self.retries)": the loop is over after
\* n attempts.
Exhausted(n, i) == i >= n

\* A mutant of the retryable errors: every error is.
Retryable_any(answer) == answer # "ok"

\* _call_s3 line 248, "except S3_RETRYABLE_ERRORS".
Retryable(answer) == answer = "timeout"

\* _call_s3 line 265, raise translate_boto_error(err): a timeout is raised as
\* it is; err is unbound when the loop made no attempt.
Raised(err) ==
    IF err = "unbound" THEN "UnboundLocalError"
    ELSE IF err = "timeout" THEN "timeout" ELSE ErrorOf(err)

RECURSIVE CallLoop(_, _, _, _, _)
\* _call_s3 lines 244-255 with self.retries = n: the attempt after the
\* attempts made, of which each timed out; err is the error of the last one.
CallLoop(m, n, answers, made, err) ==
    IF Exhausted(n, Len(made)) THEN [status |-> Raised(err), calls |-> made]
    ELSE IF answers[Len(made) + 1] = "ok"
    THEN [status |-> "ok", calls |-> Append(made, Attempt(m, "ok"))]
    ELSE IF Retryable(answers[Len(made) + 1])
    THEN CallLoop(m, n, answers, Append(made, Attempt(m, answers[Len(made) + 1])),
                  answers[Len(made) + 1])
    ELSE [status |-> Raised(answers[Len(made) + 1]),
          calls |-> Append(made, Attempt(m, answers[Len(made) + 1]))]

\* S3FileSystem._call_s3(method) with self.retries = n, where answers are the
\* answers of the attempts in order.
_call_s3(m, n, answers) == CallLoop(m, n, answers, <<>>, "unbound")

\* _call_s3("list_objects_v2") on a filesystem whose retries is n.
CallS3 ==
    /\ last = Idle
    /\ \E n \in 0..retries, answers \in [1..(retries + 2) -> Answers] :
        /\ trace' = _call_s3("list_objects_v2", n, answers).calls
        /\ last' = Last("call_s3", <<>>, _call_s3("list_objects_v2", n, answers).status,
                        <<n>>, FALSE, TRUE)
    /\ UNCHANGED <<fsvars, hvars>>

NextCall == CallS3 \/ Return

SpecCall == Init /\ [][NextCall]_vars

\* C16: every _call_s3 ends after at most retries attempts of the remote
\* method; it returns the first successful response without a further
\* attempt; and when every attempt has timed out it raises an error instead
\* of attempting again.
C16_CallBounded ==
    last.op = "call_s3" =>
        /\ Len(trace) <= last.result[1]
        /\ \A j \in DOMAIN trace : trace[j].ok => j = Len(trace)
        /\ last.status = "ok" <=> (trace # <<>> /\ trace[Len(trace)].ok)
        /\ (trace # <<>> /\ \A j \in DOMAIN trace : trace[j].answer = "timeout")
              => (Len(trace) = last.result[1] /\ last.status = "timeout")

\* A call with 5 retries has returned the response of the fifth attempt after
\* four timeouts.
C16_Witness ==
    /\ last.op = "call_s3"
    /\ last.result[1] = retries
    /\ Len(trace) = retries
    /\ last.status = "ok"
    /\ \A j \in 1..(retries - 1) : trace[j].answer = "timeout"

\* C17: _call_s3 attempts the remote method again only after a timeout; an
\* attempt that ends in another error is the last one, and the translated
\* error is raised.
C17_RetryOnlyAfterTimeout ==
    last.op = "call_s3" =>
        /\ \A j \in 1..(Len(trace) - 1) : trace[j].answer = "timeout"
        /\ \A j \in DOMAIN trace :
            trace[j].answer \notin {"ok", "timeout"} =>
                (j = Len(trace) /\ last.status = ErrorOf(trace[j].answer))

\* A call has been refused for lack of permission at its third attempt, after
\* two timeouts, with attempts left: PermissionError was raised.
C17_Witness ==
    /\ last.op = "call_s3"
    /\ last.result[1] = retries
    /\ Len(trace) = 3
    /\ trace[3].answer = "denied"
    /\ last.status = "PermissionError"

----------------------------------------------------------------------------
(* split_path: a path string as a sequence of tokens.                      *)

\* The tokens of a path string: the protocol prefix, the separator, the
\* version marker and two characters of plain text.
VersionMarker == "?versionId="

Tokens == {"s3://", "/", VersionMarker, "k", "v"}

\* The longest path string given to split_path.
MaxPathLen == 5

PathStrings == UNION {[1..n -> Tokens] : n \in 0..MaxPathLen}

\* The version id None.
None == <<"None">>

\* The first position of token t in s, 0 when there is none.
Find1(s, t) ==
    IF t \in Range(s) THEN CHOOSE i \in DOMAIN s : s[i] = t /\ \A j \in 1..(i - 1) : s[j] # t
    ELSE 0

RECURSIVE lstrip(_)
\* str.lstrip("/")
lstrip(s) == IF s # <<>> /\ Head(s) = "/" THEN lstrip(Tail(s)) ELSE s

RECURSIVE rstrip(_)
\* str.rstrip("/")
rstrip(s) ==
    IF s # <<>> /\ s[Len(s)] = "/" THEN rstrip(SubSeq(s, 1, Len(s) - 1)) ELSE s

\* _strip_protocol as split_path calls it (line 314): the protocol prefix and
\* the trailing separators are removed.
_strip_protocol(s) ==
    rstrip(IF s # <<>> /\ Head(s) = "s3://" THEN Tail(s) ELSE s)

\* str.partition(sep): the text before the first sep and the text after it;
\* the whole text and the empty text when there is no sep.
partition(s, sep) ==
    IF Find1(s, sep) = 0 THEN <<s, <<>>>>
    ELSE <<SubSeq(s, 1, Find1(s, sep) - 1), SubSeq(s, Find1(s, sep) + 1, Len(s))>>

\* split_path line 319: key, _, version_id = keypart.partition("?versionId=").
SplitKey(keypart, va) == partition(keypart, VersionMarker)[1]

\* split_path lines 315-324 on the stripped path s.
SplitStripped(s, va) ==
    IF "/" \notin Range(s) THEN <<s, <<>>, None>>
    ELSE <<partition(s, "/")[1],
           SplitKey(partition(s, "/")[2], va),
           IF va /\ partition(partition(s, "/")[2], VersionMarker)[2] # <<>>
           THEN partition(partition(s, "/")[2], VersionMarker)[2] ELSE None>>

\* S3FileSystem.split_path(path) on a filesystem whose version_aware is va.
split_path(path, va) == SplitStripped(lstrip(_strip_protocol(path)), va)

\* split_path(path) is called.
SplitPath ==
    /\ last = Idle
    /\ \E path \in PathStrings :
        last' = Last("split_path", path, "ok", split_path(path, version_aware), FALSE, TRUE)
    /\ trace' = <<>>
    /\ UNCHANGED <<fsvars, hvars>>

NextPath == SplitPath \/ Return

SpecPath == Init /\ [][NextPath]_vars

\* The path string of the call is a bucket, a separator and a key part that
\* holds text, the version marker and text after it, in this order.
MarkedKey ==
    /\ last.op = "split_path"
    /\ Len(last.path) > 2
    /\ last.path[1] \in {"k", "v"}
    /\ last.path[2] = "/"
    /\ last.path[Len(last.path)] \in {"k", "v"}
    /\ Find1(last.path, VersionMarker) > 3

KeyPart == SubSeq(last.path, 3, Len(last.path))

\* C18: for a key part with a version marker, split_path on a filesystem that
\* is not version aware returns the whole key part as the key, marker and
\* text after it included, and the version None; on a version aware
\* filesystem the key is the text before the marker and the version the text
\* after it.
C18_MarkerLiteralUnlessAware ==
    MarkedKey =>
        IF version_aware
        THEN /\ last.result[2] \o <<VersionMarker>> \o last.result[3] = KeyPart
             /\ VersionMarker \notin Range(last.result[2])
        ELSE /\ last.result[2] = KeyPart
             /\ last.result[3] = None

----------------------------------------------------------------------------
(* The operations that take an explicit version id.                        *)

\* The version ids an operation is called with.
VersionIds == {"v1", "v2"}

\* version_id_kw: the calls of method m carry VersionId = v, the other calls
\* carry none.
WithVersion(calls, m, v) ==
    [i \in DOMAIN calls |->
        [m |-> calls[i].m, path |-> calls[i].path, ok |-> calls[i].ok,
         keys |-> calls[i].keys, version |-> IF calls[i].m = m THEN v ELSE ""]]

Versioned(x, m, v) == [x EXCEPT !.calls = WithVersion(@, m, v)]

\* _info(path, version_id=v) with v not None, lines 1045-1112: the check of
\* version_aware comes first; the head probe carries the version id.
InfoOfVersion(cache, objs, bks, va, p, v, rs) ==
    IF ~va THEN [status |-> "ValueError", out |-> <<>>, calls |-> <<>>]
    ELSE Versioned(_info(cache, objs, bks, va, p, FALSE, rs, 0), "head_object", v)

\* _open(path, "rb", version_id=v), lines 526-547, and S3File.__init__ lines
\* 1820-1823: the check of version_aware, then info(path, version_id=v).
OpenOfVersion(cache, objs, bks, va, p, v, rs) ==
    IF ~va THEN [status |-> "ValueError", out |-> <<>>, calls |-> <<>>]
    ELSE InfoOfVersion(cache, objs, bks, va, p, v, rs)

\* The get_object call of _cat_file and _get_file with its reply rep.
GetObject(objs, p, v, rep) ==
    [status |-> IF rep # "ok" THEN ErrorOf(rep)
                ELSE IF p \in objs THEN "ok" ELSE "FileNotFoundError",
     out |-> IF rep = "ok" /\ p \in objs THEN <<FileEntry(p)>> ELSE <<>>,
     calls |-> WithVersion(<<Call("get_object", p, rep = "ok" /\ p \in objs)>>,
                           "get_object", v)]

\* _cat_file(path, version_id=v) without start and end.
_cat_file(objs, bks, p, v, rs) == GetObject(objs, p, v, Reply(bks, p, rs, 0))

\* _get_file(rpath, lpath, version_id=v): nothing is done when lpath is a
\* directory.
_get_file(objs, bks, p, v, isdir, rs) ==
    IF isdir THEN [status |-> "ok", out |-> <<>>, calls |-> <<>>]
    ELSE GetObject(objs, p, v, Reply(bks, p, rs, 0))

\* The paths with a key.
KeyPaths == {p \in Paths : KeyOf(p) # <<>>}

\* An operation called with version id v ends with x.
ReadsVersion(op, p, v, x) ==
    Reads(op, p, [status |-> x.status, out |-> <<v>> \o x.out, cache |-> dircache,
                  calls |-> x.calls], FALSE, TRUE)

\* info(path, version_id=v).
InfoVersion ==
    /\ last = Idle
    /\ \E p \in Paths, v \in VersionIds :
        \E rs \in Runs(LAMBDA r : InfoOfVersion(dircache, objects, buckets,
                                               version_aware, p, v, r)) :
            ReadsVersion("info", p, v,
                         InfoOfVersion(dircache, objects, buckets, version_aware, p, v, rs))

\* open(path, "rb", version_id=v).
OpenVersion ==
    /\ last = Idle
    /\ \E p \in KeyPaths, v \in VersionIds :
        \E rs \in Runs(LAMBDA r : OpenOfVersion(dircache, objects, buckets,
                                               version_aware, p, v, r)) :
            ReadsVersion("open", p, v,
                         OpenOfVersion(dircache, objects, buckets, version_aware, p, v, rs))

\* cat_file(path, version_id=v).
CatFile ==
    /\ last = Idle
    /\ \E p \in KeyPaths, v \in VersionIds, o \in Outcomes :
        ReadsVersion("cat_file", p, v, _cat_file(objects, buckets, p, v, Pad(<<o>>)))

\* get_file(rpath, lpath, version_id=v).
GetFile ==
    /\ last = Idle
    /\ \E p \in KeyPaths, v \in VersionIds, o \in Outcomes, isdir \in BOOLEAN :
        ReadsVersion("get_file", p, v,
                     _get_file(objects, buckets, p, v, isdir, Pad(<<o>>)))

NextVersion == InfoVersion \/ OpenVersion \/ CatFile \/ GetFile \/ Return

SpecVersion == Init /\ [][NextVersion]_vars

\* C19: on a filesystem that is not version aware, open, info, cat_file and
\* get_file called with an explicit version id raise ValueError and issue no
\* remote call that carries the version id.
C19_VersionRejectedUnlessAware ==
    (~version_aware /\ last.op \in {"open", "info", "cat_file", "get_file"}) =>
        /\ last.status = "ValueError"
        /\ \A j \in DOMAIN trace : trace[j].version # last.result[1]

\* info(path) of a path with a key was not answered from the cache and raised
\* FileNotFoundError.
InfoNotFound ==
    /\ last.op = "info"
    /\ KeyOf(last.path) # <<>>
    /\ trace # <<>>
    /\ last.status = "FileNotFoundError"

\* The last call of info was the directory probe, and it found nothing: on a
\* filesystem that is not version aware the first listing is the exact-key
\* probe, every other listing is the directory probe.
DirProbedLast ==
    /\ trace[Len(trace)].m = "list_objects_v2"
    /\ version_aware \/ Len(trace) > 1
    /\ trace[Len(trace)].ok => ~\E k \in objects : Under(last.path, k)

\* The only call of info was the exact-key list probe, which was answered
\* with not-found or found no key at all that starts with the key.
ListProbedEmpty ==
    /\ ~version_aware
    /\ Len(trace) = 1
    /\ trace[1].m = "list_objects_v2"
    /\ trace[1].ok => (last.path \notin objects /\ ~\E k \in objects : Under(last.path, k))

\* C20: info(path) of a path with a key, on a cache miss, raises
\* FileNotFoundError only after the directory probe has been issued and has
\* found nothing; the exact-key probe alone never makes not-found final.
C20_NotFoundOnlyAfterDirProbe == InfoNotFound => DirProbedLast

\* C20 as amended: info(path) of a path with a key, on a cache miss, raises
\* FileNotFoundError only after the directory probe has been issued and has
\* found nothing, or when the exact-key list probe was answered with not-found
\* or found nothing at all under the key as prefix; a head probe that does
\* not find the object never makes not-found final.
C20_NotFoundAfterDirProbeOrEmptyList ==
    InfoNotFound => (DirProbedLast \/ ListProbedEmpty)

\* On a filesystem that is not version aware the list probe was refused, the
\* head probe did not find the object, the directory probe found nothing,
\* and info raised FileNotFoundError.
C20_Witness ==
    /\ InfoNotFound
    /\ ~version_aware
    /\ Len(trace) = 3
    /\ trace[2].m = "head_object"
    /\ trace[3].ok
    /\ DirProbedLast

----------------------------------------------------------------------------
(* The read handle: S3File opened with mode "rb".                          *)

\* The most versions of the object's content a concurrent writer stores; the
\* etag of a version is its number.
MaxEtag == 3

\* How the get_object of a ranged read ends when the store does not answer
\* it: the outcomes of any call, and a range the store cannot satisfy.
GetErrors == (Outcomes \ {"ok"}) \cup {"range"}

\* translate_boto_error on the error of a get_object: PreconditionFailed and
\* InvalidRange both become OSError(EINVAL, message), where the message of
\* the first one names the pre-conditions. The type is "ok" for an answer.
GetRaised(err) ==
    IF err = "precondition" THEN [type |-> "OSError", errno |-> "EINVAL", pre |-> TRUE]
    ELSE IF err = "range" THEN [type |-> "OSError", errno |-> "EINVAL", pre |-> FALSE]
    ELSE [type |-> IF err = "ok" THEN "ok" ELSE ErrorOf(err), errno |-> "", pre |-> FALSE]

\* The store's answer to get_object with the headers kw on an object whose
\* etag is now etag: 412 PreconditionFailed when If-Match names another etag.
GetAnswer(etag, kw, o) ==
    IF o # "ok" THEN o
    ELSE IF kw.IfMatch # 0 /\ kw.IfMatch # etag THEN "precondition" ELSE "ok"

\* The record of a ranged get_object.
RangeCall(start, end, kw, ok) ==
    [m |-> "get_object", path |-> <<"a", "b", "c">>, ok |-> ok, keys |-> {},
     range |-> <<start, end - 1>>, IfMatch |-> kw.IfMatch]

\* _fetch_range(fs, bucket, key, version_id, start, end, req_kw), lines
\* 2049-2070: no call for an empty range; out is the etag of the object whose
\* bytes are returned, 0 when none are.
_fetch_range(etag, start, end, kw, o) ==
    IF start = end THEN [status |-> GetRaised("ok"), out |-> 0, calls |-> <<>>]
    ELSE IF GetAnswer(etag, kw, o) = "ok"
    THEN [status |-> GetRaised("ok"), out |-> etag, calls |-> <<RangeCall(start, end, kw, TRUE)>>]
    ELSE [status |-> GetRaised(GetAnswer(etag, kw, o)), out |-> 0,
          calls |-> <<RangeCall(start, end, kw, FALSE)>>]

\* S3File._fetch_range lines 1930-1936: the OSError with EINVAL that names
\* the pre-conditions is raised as FileExpired, any other error as it is.
FetchRaises(status) ==
    IF status.type = "ok" THEN "ok"
    ELSE IF status.type = "OSError" /\ status.errno = "EINVAL" /\ status.pre
    THEN "FileExpired"
    ELSE IF status.type = "OSError" /\ status.errno = "EINVAL" THEN "OSError EINVAL"
    ELSE status.type

\* S3File._fetch_range(start, end) of handle f.
S3File_fetch_range(f, etag, start, end, o) ==
    [status |-> FetchRaises(_fetch_range(etag, start, end, f.req_kw, o).status),
     out |-> _fetch_range(etag, start, end, f.req_kw, o).out,
     calls |-> _fetch_range(etag, start, end, f.req_kw, o).calls]

\* A mutant of the headers of a read handle: no If-Match.
ReadKw_none(details) == [IfMatch |-> 0]

\* S3File.__init__ lines 1848-1849: req_kw["IfMatch"] = details["ETag"].
ReadKw(details) == [IfMatch |-> details.ETag]

\* S3File.__init__ with mode "rb": the handle whose details are what info
\* returned. got holds the etags of the objects whose bytes its ranged reads
\* have returned.
NewReader(details) ==
    [open |-> TRUE, mode |-> "rb", details |-> details, req_kw |-> ReadKw(details),
     got |-> {}]

\* The store holds the first version of the object of the handle's path.
InitRead ==
    /\ buckets = BucketNames
    /\ objects = WritePaths
    /\ dircache = EmptyCache
    /\ anon = FALSE
    /\ version_aware \in BOOLEAN
    /\ file = NoFile
    /\ remote = [etag |-> 1]
    /\ trace = <<>>
    /\ last = Idle

\* open(path, "rb"): info(path) gives the details, with the etag the object
\* has now.
OpenRead ==
    /\ last = Idle
    /\ ~file.open
    /\ \E rs \in Runs(LAMBDA r : _info(dircache, objects, buckets, version_aware,
                                       <<"a", "b", "c">>, FALSE, r, 0)) :
        /\ trace' = _info(dircache, objects, buckets, version_aware, <<"a", "b", "c">>,
                          FALSE, rs, 0).calls
        /\ last' = Last("open", <<"a", "b", "c">>,
                        _info(dircache, objects, buckets, version_aware,
                              <<"a", "b", "c">>, FALSE, rs, 0).status,
                        <<>>, FALSE, TRUE)
        /\ file' = IF last'.status = "ok" THEN NewReader([ETag |-> remote.etag])
                   ELSE file
    /\ UNCHANGED <<fsvars, remote>>

\* Another client overwrites the object: it has a new etag.
Overwrite ==
    /\ remote.etag < MaxEtag
    /\ remote' = [etag |-> remote.etag + 1]
    /\ UNCHANGED <<fsvars, file, trace, last>>

\* A read of the handle fetches the range [start, end); the result of last
\* holds how the store was to answer and the etag the object had.
FetchRange ==
    /\ last = Idle
    /\ file.open
    /\ \E start \in 0..1, end \in 0..2, o \in Outcomes \cup {"range"} :
        /\ start <= end
        /\ trace' = S3File_fetch_range(file, remote.etag, start, end, o).calls
        /\ last' = Last("fetch_range", <<"a", "b", "c">>,
                        S3File_fetch_range(file, remote.etag, start, end, o).status,
                        <<o, remote.etag>>, FALSE, TRUE)
        /\ file' = IF S3File_fetch_range(file, remote.etag, start, end, o).out = 0
                   THEN file
                   ELSE [file EXCEPT !.got = @ \cup
                            {S3File_fetch_range(file, remote.etag, start, end, o).out}]
    /\ UNCHANGED <<fsvars, remote>>

\* The handle is closed.
CloseRead ==
    /\ last = Idle
    /\ file.open
    /\ file' = NoFile
    /\ UNCHANGED <<fsvars, remote, trace, last>>

NextRead == OpenRead \/ Overwrite \/ FetchRange \/ CloseRead \/ Return

SpecRead == InitRead /\ [][NextRead]_vars

\* C21: every ranged get of a read handle carries the etag observed at open as
\* If-Match; a precondition failure of a ranged get is raised as FileExpired,
\* any other error as it is; and the successful ranged reads of one handle
\* never return bytes of objects with different etags.
C21_ReadsOneEtag ==
    /\ file.open => Cardinality(file.got) <= 1
    /\ last.op = "fetch_range" =>
        /\ \A j \in DOMAIN trace : trace[j].IfMatch = file.details.ETag
        /\ last.status = "FileExpired"
              <=> (last.result[1] = "ok" /\ trace # <<>>
                   /\ last.result[2] # file.details.ETag)
        /\ (last.result[1] # "ok" /\ trace # <<>>) =>
              last.status = (IF last.result[1] = "range" THEN "OSError EINVAL"
                             ELSE ErrorOf(last.result[1]))
        /\ (last.status = "ok" /\ trace # <<>>) => file.got = {file.details.ETag}

\* A handle that has read bytes of the object it was opened on has had a
\* later read refused with FileExpired after the object was overwritten.
C21_Witness ==
    /\ file.open
    /\ file.got = {1}
    /\ last.op = "fetch_range"
    /\ last.result[2] = 2
    /\ last.status = "FileExpired"

----------------------------------------------------------------------------
(* cp_file and its three copy strategies. Sizes are in GiB.                *)

\* MANAGED_COPY_THRESHOLD, in GiB.
MANAGED_COPY_THRESHOLD == 5

\* The most remote calls one cp_file issues in the model.
MaxCopyCalls == 11

\* The source object of the copy and its destination.
CopySrc == <<"a", "b", "c">>

CopyDst == <<"z", "f">>

\* The source objects: the size, and the sizes of the parts it was uploaded
\* in, none for an object whose etag carries no part-count suffix.
Sources ==
    {[size |-> 1, parts |-> <<>>], [size |-> 5, parts |-> <<>>],
     [size |-> 6, parts |-> <<>>], [size |-> 1, parts |-> <<1>>],
     [size |-> 4, parts |-> <<2, 2>>], [size |-> 6, parts |-> <<5, 1>>],
     [size |-> 6, parts |-> <<1, 5>>], [size |-> 11, parts |-> <<5, 5, 1>>],
     [size |-> 7, parts |-> <<2, 3, 2>>]}

\* The outcomes of the calls of one cp_file: at most one call does not
\* answer.
CopyRuns ==
    {[i \in 1..MaxCopyCalls |-> IF i = k THEN o ELSE "ok"] :
        k \in 0..MaxCopyCalls, o \in {"fail", "denied"}}

\* The record of a call of a copy: the part number and the byte range of a
\* part copy or of a part's head_object, the part numbers of a complete.
CopyCall(m, p, ok, part, range, parts) ==
    [m |-> m, path |-> p, ok |-> ok, keys |-> {}, part |-> part, range |-> range,
     parts |-> parts]

\* The calls of _info and the records of invalidate_cache in that shape.
AsCopyCalls(calls) ==
    [i \in DOMAIN calls |->
        [m |-> calls[i].m, path |-> calls[i].path, ok |-> calls[i].ok,
         keys |-> calls[i].keys, part |-> 0, range |-> <<>>, parts |-> <<>>]]

\* What a copy has come to: the status, the calls so far, whether the
\* destination object was stored.
Copied(status, calls, stored) == [status |-> status, calls |-> calls, stored |-> stored]

\* _copy_basic lines 1486, _copy_etag_preserved line 1532, _copy_managed line
\* 1572: invalidate_cache(path2) after the last call of a copy.
CopyDone(cache, calls) ==
    Copied("ok", calls \o AsCopyCalls(<<Evict(cache, CopyDst)>>), TRUE)

\* _copy_basic(path1, path2), lines 1466-1486; ver2 is whether path2 carries
\* a version id.
_copy_basic(cache, bks, ver2, rs, n) ==
    IF ver2 THEN Copied("ValueError", <<>>, FALSE)
    ELSE IF Reply(bks, CopyDst, rs, n) # "ok"
    THEN Copied(ErrorOf(Reply(bks, CopyDst, rs, n)),
                <<CopyCall("copy_object", CopyDst, FALSE, 0, <<>>, <<>>)>>, FALSE)
    ELSE CopyDone(cache, <<CopyCall("copy_object", CopyDst, TRUE, 0, <<>>, <<>>)>>)

\* complete_multipart_upload with the parts 1..count, then invalidate_cache.
CopyComplete(cache, bks, count, rs, n, calls) ==
    IF Reply(bks, CopyDst, rs, n) # "ok"
    THEN Copied(ErrorOf(Reply(bks, CopyDst, rs, n)),
                Append(calls, CopyCall("complete_multipart_upload", CopyDst, FALSE, 0,
                                       <<>>, [i \in 1..count |-> i])), FALSE)
    ELSE CopyDone(cache,
                  Append(calls, CopyCall("complete_multipart_upload", CopyDst, TRUE, 0,
                                         <<>>, [i \in 1..count |-> i])))

\* The sequential part copies of the ranges from number i on, then the
\* complete.
RECURSIVE CopyRanges(_, _, _, _, _, _, _)
CopyRanges(cache, bks, ranges, i, rs, n, calls) ==
    IF i > Len(ranges) THEN CopyComplete(cache, bks, Len(ranges), rs, n, calls)
    ELSE IF Reply(bks, CopyDst, rs, n) # "ok"
    THEN Copied(ErrorOf(Reply(bks, CopyDst, rs, n)),
                Append(calls, CopyCall("upload_part_copy", CopyDst, FALSE, i, ranges[i],
                                       <<>>)), FALSE)
    ELSE CopyRanges(cache, bks, ranges, i + 1, rs, n + 1,
                    Append(calls, CopyCall("upload_part_copy", CopyDst, TRUE, i, ranges[i],
                                           <<>>)))

\* A mutant of the start of the next range: the last byte of the part before.
NextFirst_overlap(first, part_size) == first + part_size - 1

\* _copy_etag_preserved line 1521: brange_first += part_size.
NextFirst(first, part_size) == first + part_size

\* _copy_etag_preserved lines 1508-1512: the last byte of the range of a part.
RangeLast(first, part_size, size) ==
    IF first + part_size - 1 > size THEN size - 1 ELSE first + part_size - 1

RECURSIVE EtagRanges(_, _, _, _)
\* _copy_etag_preserved lines 1507-1521: the ranges of the parts from number i
\* on, of which the first starts at byte first.
EtagRanges(sizes, size, i, first) ==
    IF i > Len(sizes) THEN <<>>
    ELSE <<<<first, RangeLast(first, sizes[i], size)>>>>
         \o EtagRanges(sizes, size, i + 1, NextFirst(first, sizes[i]))

\* _copy_etag_preserved lines 1498-1503: head_object of every part of the
\* source at once; all are issued, and the first error is raised.
PartHeads(bks, total_parts, rs, n) ==
    [i \in 1..total_parts |->
        CopyCall("head_object", CopySrc, Reply(bks, CopySrc, rs, n + i - 1) = "ok", i,
                 <<>>, <<>>)]

\* The first of the calls that did not answer, 0 when all did.
FirstFailed(calls) ==
    IF \A i \in DOMAIN calls : calls[i].ok THEN 0
    ELSE CHOOSE i \in DOMAIN calls : ~calls[i].ok /\ \A j \in 1..(i - 1) : calls[j].ok

\* _copy_etag_preserved lines 1495-1532 of a source with the part sizes
\* sizes.
_copy_etag_preserved(cache, bks, sizes, size, total_parts, rs, n) ==
    IF Reply(bks, CopyDst, rs, n) # "ok"
    THEN Copied(ErrorOf(Reply(bks, CopyDst, rs, n)),
                <<CopyCall("create_multipart_upload", CopyDst, FALSE, 0, <<>>, <<>>)>>,
                FALSE)
    ELSE IF FirstFailed(PartHeads(bks, total_parts, rs, n + 1)) # 0
    THEN Copied(ErrorOf(Reply(bks, CopySrc, rs,
                              n + FirstFailed(PartHeads(bks, total_parts, rs, n + 1)))),
                <<CopyCall("create_multipart_upload", CopyDst, TRUE, 0, <<>>, <<>>)>>
                \o PartHeads(bks, total_parts, rs, n + 1), FALSE)
    ELSE CopyRanges(cache, bks, EtagRanges(sizes, size, 1, 0), 1, rs,
                    n + 1 + total_parts,
                    <<CopyCall("create_multipart_upload", CopyDst, TRUE, 0, <<>>, <<>>)>>
                    \o PartHeads(bks, total_parts, rs, n + 1))

\* A mutant of the ranges: the same blocks, the last one first.
_get_brange_descending(size, block) ==
    [i \in 1..((size + block - 1) \div block) |->
        <<(((size + block - 1) \div block) - i) * block,
          IF (((size + block - 1) \div block) - i + 1) * block < size
          THEN (((size + block - 1) \div block) - i + 1) * block - 1 ELSE size - 1>>]

\* _get_brange(size, block): the ranges of block bytes that cover size bytes.
_get_brange(size, block) ==
    [i \in 1..((size + block - 1) \div block) |->
        <<(i - 1) * block, IF i * block < size THEN i * block - 1 ELSE size - 1>>]

\* _copy_managed(path1, path2, size, block), lines 1534-1572; the block must
\* be at most 5 GiB (a block below 5 MiB has no size in GiB).
_copy_managed(cache, bks, size, block, rs, n) ==
    IF block > 5 THEN Copied("ValueError", <<>>, FALSE)
    ELSE IF Reply(bks, CopyDst, rs, n) # "ok"
    THEN Copied(ErrorOf(Reply(bks, CopyDst, rs, n)),
                <<CopyCall("create_multipart_upload", CopyDst, FALSE, 0, <<>>, <<>>)>>,
                FALSE)
    ELSE CopyRanges(cache, bks, _get_brange(size, block), 1, rs, n + 1,
                    <<CopyCall("create_multipart_upload", CopyDst, TRUE, 0, <<>>, <<>>)>>)

\* _cp_file lines 1594-1605 with the info of the source: its size and the
\* part sizes behind the suffix of its etag. asserts is whether the build
\* keeps assert statements.
CopyChoice(cache, bks, src, preserve_etag, asserts, ver2, block, rs, n) ==
    IF preserve_etag /\ src.parts # <<>>
    THEN _copy_etag_preserved(cache, bks, src.parts, src.size, Len(src.parts), rs, n)
    ELSE IF src.size <= MANAGED_COPY_THRESHOLD
    THEN _copy_basic(cache, bks, ver2, rs, n)
    ELSE IF asserts /\ preserve_etag THEN Copied("AssertionError", <<>>, FALSE)
    ELSE _copy_managed(cache, bks, src.size, block, rs, n)

\* The result c of the copy after the calls of _info.
CopyAfter(calls, c) == Copied(c.status, AsCopyCalls(calls) \o c.calls, c.stored)

\* _cp_file(path1, path2, preserve_etag, block=block) with the answer i of
\* _info(path1).
CopyInfo(i, cache, bks, src, preserve_etag, asserts, ver2, block, rs) ==
    IF i.status # "ok" THEN Copied(i.status, AsCopyCalls(i.calls), FALSE)
    ELSE CopyAfter(i.calls, CopyChoice(cache, bks, src, preserve_etag, asserts, ver2,
                                       block, rs, Len(i.calls)))

_cp_file(cache, objs, bks, va, src, preserve_etag, asserts, ver2, block, rs) ==
    CopyInfo(_info(cache, objs, bks, va, CopySrc, FALSE, rs, 0), cache, bks, src,
             preserve_etag, asserts, ver2, block, rs)

\* A new filesystem on a store that holds one of the source objects.
InitCopy ==
    /\ buckets = BucketNames
    /\ objects = WritePaths
    /\ dircache = EmptyCache
    /\ anon = FALSE
    /\ version_aware \in BOOLEAN
    /\ file = NoFile
    /\ remote \in Sources
    /\ trace = <<>>
    /\ last = Idle

\* A cp_file ends in c; the result of last holds what it was called with.
Copies(c, args) ==
    /\ trace' = c.calls
    /\ last' = Last("cp_file", CopyDst, c.status, args, FALSE, TRUE)
    /\ objects' = IF c.stored THEN objects \cup {CopyDst} ELSE objects
    /\ dircache' = IF c.stored THEN invalidate_cache(dircache, CopyDst) ELSE dircache
    /\ UNCHANGED <<buckets, anon, version_aware, hvars>>

\* cp_file(path1, path2, preserve_etag=preserve_etag, block=block).
CpFile ==
    /\ last = Idle
    /\ \E preserve_etag \in BOOLEAN, asserts \in BOOLEAN, ver2 \in BOOLEAN,
          block \in {5, 6}, rs \in CopyRuns :
        Copies(_cp_file(dircache, objects, buckets, version_aware, remote, preserve_etag,
                        asserts, ver2, block, rs),
               [preserve_etag |-> preserve_etag, asserts |-> asserts, ver2 |-> ver2,
                block |-> block, rs |-> rs])

NextCopy == CpFile \/ Return

SpecCopy == InitCopy /\ [][NextCopy]_vars

\* The strategy a cp_file has taken, by the calls it issued.
Chosen ==
    IF \E j \in DOMAIN trace : trace[j].m = "copy_object" THEN "basic"
    ELSE IF \E j \in DOMAIN trace : trace[j].m = "head_object" /\ trace[j].part > 0
    THEN "etag_preserved"
    ELSE IF \E j \in DOMAIN trace : trace[j].m = "upload_part_copy" THEN "managed"
    ELSE "none"

\* A cp_file with valid arguments, none of whose remote calls was to fail.
CopyUnhindered ==
    /\ last.op = "cp_file"
    /\ \A i \in DOMAIN last.result.rs : last.result.rs[i] = "ok"
    /\ ~last.result.ver2
    /\ last.result.block <= 5

\* C22: cp_file takes the etag-preserving copy when preserve_etag is set and
\* the source etag carries a part count; else the basic copy when the source
\* is at most 5 GiB; else the managed copy, which is also what copies an
\* object above 5 GiB whose etag carries no part count when preserve_etag is
\* set: the copy is performed and does not fail.
C22_CopyStrategy ==
    CopyUnhindered =>
        /\ last.status = "ok"
        /\ Chosen = (IF last.result.preserve_etag /\ remote.parts # <<>>
                     THEN "etag_preserved"
                     ELSE IF remote.size <= MANAGED_COPY_THRESHOLD THEN "basic"
                     ELSE "managed")

\* The part copies of the trace.
PartCopies == SelectSeq(trace, LAMBDA c : c.m = "upload_part_copy")

\* C23: the etag-preserving copy of a source of N parts issues exactly N part
\* copies numbered 1..N whose ranges are contiguous from byte 0 to byte
\* size - 1, each of the size of its part, and then completes the session
\* with the parts 1..N in order.
C23_EtagCopyContiguous ==
    (last.op = "cp_file" /\ last.status = "ok" /\ Chosen = "etag_preserved") =>
        /\ Len(PartCopies) = Len(remote.parts)
        /\ \A i \in DOMAIN PartCopies :
            /\ PartCopies[i].part = i
            /\ PartCopies[i].range[1] = (IF i = 1 THEN 0 ELSE PartCopies[i - 1].range[2] + 1)
            /\ PartCopies[i].range[2] - PartCopies[i].range[1] + 1 = remote.parts[i]
        /\ PartCopies[Len(PartCopies)].range[2] = remote.size - 1
        /\ trace[Len(trace) - 1].m = "complete_multipart_upload"
        /\ trace[Len(trace) - 1].parts = [i \in 1..Len(remote.parts) |-> i]
        /\ \A j \in 1..(Len(trace) - 2) : trace[j].m # "complete_multipart_upload"

\* A source of three parts of 2, 3 and 2 GiB has been copied with its etag
\* preserved.
C23_Witness ==
    /\ last.op = "cp_file"
    /\ last.status = "ok"
    /\ Chosen = "etag_preserved"
    /\ remote.parts = <<2, 3, 2>>
    /\ Len(PartCopies) = 3
    /\ PartCopies[3].range = <<5, 6>>

----------------------------------------------------------------------------
(* rm: expansion, batched deletes, rmdir of the buckets, invalidation.     *)

\* A mutant of the slices: each holds one path more, the steps are the same.
Batches_overlap(len) ==
    [b \in 1..((len + MaxBatch - 1) \div MaxBatch) |->
        <<MaxBatch * (b - 1) + 1, IF MaxBatch * b + 1 < len THEN MaxBatch * b + 1 ELSE len>>]

\* _rm lines 1667-1668, files[i : i + 1000] for i in range(0, len(files),
\* 1000): the first and the last position of each slice of a list of len
\* paths.
Batches(len) ==
    [b \in 1..((len + MaxBatch - 1) \div MaxBatch) |->
        <<MaxBatch * (b - 1) + 1, IF MaxBatch * b < len THEN MaxBatch * b ELSE len>>]

\* The result x of a task of a gather after the results w of the tasks
\* before it: every task runs, and the first error is the one raised.
Gathered(w, x) ==
    Result(IF w.status = "ok" THEN x.status ELSE w.status, x.cache, x.objs, x.bks,
           w.calls \o x.calls)

RECURSIVE RmDeletes(_, _, _, _, _, _)
\* _rm lines 1665-1670: the _bulk_delete of the slices bs from number b on.
RmDeleted(w, x, files, bs, b, rs, n) ==
    RmDeletes(Gathered(w, x), files, bs, b + 1, rs, n + NumRemote(x.calls))

RmDeletes(w, files, bs, b, rs, n) ==
    IF b > Len(bs) THEN w
    ELSE RmDeleted(w, _bulk_delete(w.cache, w.objs, w.bks,
                                   SubSeq(files, bs[b][1], bs[b][2]), rs, n),
                   files, bs, b, rs, n)

RECURSIVE RmDirs(_, _, _, _, _)
\* _rm line 1671: the _rmdir of the buckets dirs from number i on.
RmDirDone(w, x, dirs, i, rs, n) ==
    RmDirs(Gathered(w, x), dirs, i + 1, rs, n + NumRemote(x.calls))

RmDirs(w, dirs, i, rs, n) ==
    IF i > Len(dirs) THEN w
    ELSE RmDirDone(w, _rmdir(w.cache, w.objs, w.bks, dirs[i], rs, n), dirs, i, rs, n)

RECURSIVE RmInvalidate(_, _, _)
\* _rm lines 1672-1675: each path and its parent are invalidated.
RmInvalidate(w, paths, i) ==
    IF i > Len(paths) THEN w
    ELSE RmInvalidate(
            Result(w.status,
                   invalidate_cache(invalidate_cache(w.cache, paths[i]), _parent(paths[i])),
                   w.objs, w.bks,
                   w.calls \o <<Evict(w.cache, paths[i]),
                                Evict(invalidate_cache(w.cache, paths[i]),
                                      _parent(paths[i]))>>),
            paths, i + 1)

\* A mutant of the end of _rm: the errors of the deletes and of the rmdir
\* are ignored.
RmAfterDeletes_ignoring(w, paths, dirs, rs, n) ==
    RmInvalidate(RmDirs(w, dirs, 1, rs, n), paths, 1)

\* _rm line 1671-1675 after the deletes have ended in w.
RmAfterDeletes(w, paths, dirs, rs, n) ==
    IF w.status # "ok" THEN w
    ELSE IF RmDirs(w, dirs, 1, rs, n).status # "ok" THEN RmDirs(w, dirs, 1, rs, n)
    ELSE RmInvalidate(RmDirs(w, dirs, 1, rs, n), paths, 1)

\* _rm lines 1663-1675 for the expanded paths, after the calls made so far.
RmPaths(cache, objs, bks, paths, calls, rs, n) ==
    RmAfterDeletes(
        RmDeletes(Result("ok", cache, objs, bks, calls),
                  SelectSeq(paths, LAMBDA q : KeyOf(q) # <<>>),
                  Batches(Len(SelectSeq(paths, LAMBDA q : KeyOf(q) # <<>>))), 1, rs, n),
        paths, SelectSeq(paths, LAMBDA q : KeyOf(q) = <<>>), rs,
        n + Len(Batches(Len(SelectSeq(paths, LAMBDA q : KeyOf(q) # <<>>)))))

\* sorted(out) of _expand_path.
SortedPaths(S) == SelectSeq(PathOrder, LAMBDA q : q \in S)

Names(es) == {es[i].name : i \in DOMAIN es}

\* _expand_path(path, recursive=True) with the result f of _find(path,
\* withdirs=True) and the answer e of _exists(path): FileNotFoundError when
\* nothing was found.
Expanded(f, e, p) ==
    IF e.status # "ok" THEN [status |-> e.status, paths |-> <<>>, cache |-> f.cache,
                             calls |-> f.calls \o e.calls]
    ELSE IF Names(f.out) = {} /\ ~e.result
    THEN [status |-> "FileNotFoundError", paths |-> <<>>, cache |-> f.cache,
          calls |-> f.calls \o e.calls]
    ELSE [status |-> "ok",
          paths |-> SortedPaths(Names(f.out) \cup (IF e.result THEN {p} ELSE {})),
          cache |-> f.cache, calls |-> f.calls \o e.calls]

\* _expand_path(path, recursive=True) with the result f of _find: the path
\* itself is asked for when the search has not found it.
ExpandFound(f, objs, bks, va, p, rs, n) ==
    IF f.status # "ok"
    THEN [status |-> f.status, paths |-> <<>>, cache |-> f.cache, calls |-> f.calls]
    ELSE IF p \in Names(f.out)
    THEN [status |-> "ok", paths |-> SortedPaths(Names(f.out)), cache |-> f.cache,
          calls |-> f.calls]
    ELSE Expanded(f, _exists(f.cache, objs, bks, va, p, rs, n + NumRemote(f.calls)), p)

\* _expand_path(path, recursive) of one path without magic characters, as
\* _rm line 1662 calls it.
_expand_path(cache, objs, bks, va, p, recursive, rs, n) ==
    IF ~recursive
    THEN [status |-> "ok", paths |-> <<p>>, cache |-> cache, calls |-> <<>>]
    ELSE ExpandFound(_find(cache, objs, bks, va, p, TRUE, "", rs, n), objs, bks, va, p,
                     rs, n)

\* _rm lines 1662-1675 with the result x of _expand_path, after the calls
\* made before it.
RmExpanded(x, calls, objs, bks, rs) ==
    IF x.status # "ok" THEN Result(x.status, x.cache, objs, bks, calls \o x.calls)
    ELSE RmPaths(x.cache, objs, bks, x.paths, calls \o x.calls, rs,
                 NumRemote(calls \o x.calls))

\* _rm lines 1657-1661: a recursive rm of a bucket asks whether it is
\* versioned; for a versioned bucket _rm_versioned_bucket_contents is called
\* with one argument too many, which raises TypeError.
RmVersioned(cache, objs, bks, va, p, recursive, versioned, rs) ==
    IF ~(recursive /\ KeyOf(p) = <<>>)
    THEN RmExpanded(_expand_path(cache, objs, bks, va, p, recursive, rs, 0), <<>>, objs,
                    bks, rs)
    ELSE IF Reply(bks, p, rs, 0) # "ok"
    THEN Result(ErrorOf(Reply(bks, p, rs, 0)), cache, objs, bks,
                <<Call("get_bucket_versioning", p, FALSE)>>)
    ELSE IF versioned
    THEN Result("TypeError", cache, objs, bks, <<Call("get_bucket_versioning", p, TRUE)>>)
    ELSE RmExpanded(_expand_path(cache, objs, bks, va, p, recursive, rs, 1),
                    <<Call("get_bucket_versioning", p, TRUE)>>, objs, bks, rs)

\* _rm(path, recursive) for one path; versioned is whether the bucket's
\* versioning is enabled.
_rm(cache, objs, bks, va, p, recursive, versioned, rs) ==
    RmVersioned(cache, objs, bks, va, p, recursive, versioned, rs)

\* The delete_objects of the numbered keys lo..hi of bucket "n", whose
\* parent is the bucket: _bulk_delete of a slice of one bucket.
BulkDeleteRun(lo, hi, o) ==
    IF hi - lo + 1 > MaxBatch THEN [status |-> "ValueError", calls |-> <<>>, gone |-> {}]
    ELSE [status |-> IF o = "ok" THEN "ok" ELSE ErrorOf(o),
          calls |-> <<[m |-> "delete_objects", path |-> <<"n">>, ok |-> o = "ok",
                       keys |-> lo..hi]>>,
          gone |-> IF o = "ok" THEN lo..hi ELSE {}]

RECURSIVE RmRuns(_, _, _, _)
\* _rm lines 1665-1670 for the list of the numbered keys 1..len, none of
\* which is a bucket: the slices from number b on. w holds the status, the
\* calls and the keys deleted so far.
RmRun(w, x, bs, b, rs) ==
    RmRuns([status |-> IF w.status = "ok" THEN x.status ELSE w.status,
            calls |-> w.calls \o x.calls, gone |-> w.gone \cup x.gone], bs, b + 1, rs)

RmRuns(w, bs, b, rs) ==
    IF b > Len(bs) THEN w
    ELSE RmRun(w, BulkDeleteRun(bs[b][1], bs[b][2], rs[b]), bs, b, rs)

\* rm(list of the numbered keys 1..len of bucket "n"), recursive False: the
\* expansion is the sorted list and issues no call. No path of the bucket is
\* ever cached, so the invalidate_cache calls evict nothing and are not
\* recorded.
_rm_list(len, rs) ==
    RmRuns([status |-> "ok", calls |-> <<>>, gone |-> {}], Batches(len), 1, rs)

\* The lengths of the lists given to rm.
ListSizes == {1, MaxBatch - 1, MaxBatch, MaxBatch + 1, 2 * MaxBatch, 2 * MaxBatch + 1}

\* A new filesystem on the store.
InitRm ==
    /\ buckets = BucketNames
    /\ objects = WritePaths
    /\ dircache = EmptyCache
    /\ anon = FALSE
    /\ version_aware \in BOOLEAN
    /\ file = NoFile
    /\ remote = NoSession(<<>>)
    /\ trace = <<>>
    /\ last = Idle

\* A new filesystem on a store whose bucket "n" holds the numbered keys.
InitRmList ==
    /\ buckets = BucketNames
    /\ objects = WritePaths
    /\ dircache = EmptyCache
    /\ anon = FALSE
    /\ version_aware \in BOOLEAN
    /\ file = NoFile
    /\ remote = [numbered |-> 1..(2 * MaxBatch + 1)]
    /\ trace = <<>>
    /\ last = Idle

\* rm(path, recursive=recursive).
Rm ==
    /\ last = Idle
    /\ \E p \in Paths \ {<<>>}, recursive \in BOOLEAN, versioned \in BOOLEAN :
        \E rs \in Runs(LAMBDA r : _rm(dircache, objects, buckets, version_aware, p,
                                      recursive, versioned, r)) :
            /\ dircache' = _rm(dircache, objects, buckets, version_aware, p, recursive,
                               versioned, rs).cache
            /\ objects' = _rm(dircache, objects, buckets, version_aware, p, recursive,
                              versioned, rs).objs
            /\ buckets' = _rm(dircache, objects, buckets, version_aware, p, recursive,
                              versioned, rs).bks
            /\ trace' = _rm(dircache, objects, buckets, version_aware, p, recursive,
                            versioned, rs).calls
            /\ last' = Last("rm", p,
                            _rm(dircache, objects, buckets, version_aware, p, recursive,
                                versioned, rs).status,
                            <<recursive>>, FALSE, TRUE)
    /\ UNCHANGED <<anon, version_aware, hvars>>

\* rm(list of the numbered keys 1..len).
RmList ==
    /\ last = Idle
    /\ \E len \in ListSizes, rs \in [1..3 -> Outcomes] :
        /\ \A b \in 1..3 : b > Len(Batches(len)) => rs[b] = "ok"
        /\ remote' = [numbered |-> remote.numbered \ _rm_list(len, rs).gone]
        /\ trace' = _rm_list(len, rs).calls
        /\ last' = Last("rm_list", <<"n">>, _rm_list(len, rs).status, <<len>>, FALSE, TRUE)
    /\ UNCHANGED <<fsvars, file>>

\* Another client stores objects of the model again.
Restore ==
    /\ last = Idle
    /\ \E S \in SUBSET WritePaths :
        /\ S # {}
        /\ S \cap objects = {}
        /\ objects' = objects \cup S
    /\ buckets' = BucketNames
    /\ UNCHANGED <<dircache, anon, version_aware, hvars, trace, last>>

NextRm == Rm \/ Restore \/ Return

SpecRm == InitRm /\ [][NextRm]_vars

NextRmList == RmList \/ Return

SpecRmList == InitRmList /\ [][NextRmList]_vars

\* The delete_objects calls of the trace.
DeleteCalls == SelectSeq(trace, LAMBDA c : c.m = "delete_objects")

\* C24: rm of a list of paths of one bucket, of any length, issues
\* delete_objects calls of at most 1000 keys each, in which every requested
\* key appears exactly once and no other key appears.
C24_BatchesPartition ==
    last.op = "rm_list" =>
        /\ last.status # "ValueError"
        /\ \A j \in DOMAIN DeleteCalls : Cardinality(DeleteCalls[j].keys) <= MaxBatch
        /\ UNION {DeleteCalls[j].keys : j \in DOMAIN DeleteCalls} = 1..last.result[1]
        /\ \A j, k \in DOMAIN DeleteCalls :
            j # k => DeleteCalls[j].keys \cap DeleteCalls[k].keys = {}

\* A list of 2001 keys has been removed in three calls.
C24_Witness ==
    /\ last.op = "rm_list"
    /\ last.status = "ok"
    /\ last.result[1] = 2 * MaxBatch + 1
    /\ Len(DeleteCalls) = 3
    /\ Cardinality(DeleteCalls[3].keys) = 1

\* The objects rm(path, recursive) is asked to remove from the store objs.
Requested(objs, p, recursive) ==
    {k \in objs : k = p \/ (recursive /\ Under(p, k))}

\* C25: rm is atomic for its caller: when it raises, no object of the
\* requested set has been deleted from the store; when it returns, all of
\* them have been.
C25_RmAtomic ==
    [][(last.op = "idle" /\ last'.op = "rm") =>
            IF last'.status = "ok"
            THEN Requested(objects, last'.path, last'.result[1]) \cap objects' = {}
            ELSE Requested(objects, last'.path, last'.result[1]) \subseteq objects']_vars

\* C30: in rm, no delete_bucket is issued before every delete_objects has
\* been issued and has succeeded, no delete_objects is issued after a
\* delete_bucket, and the final invalidation of every expanded path and of
\* its parent comes after all deletes and all rmdir, only when all of them
\* have succeeded: rm then ends with the invalidation of the parent of the
\* last path, and an rm in which a delete or an rmdir has failed raises with
\* nothing invalidated after the last of those calls.
C30_RmOrder ==
    last.op = "rm" =>
        /\ \A j, k \in DOMAIN trace :
            (trace[j].m = "delete_objects" /\ trace[k].m = "delete_bucket") =>
                (j < k /\ trace[j].ok)
        /\ (\E j \in DOMAIN trace :
                trace[j].m \in {"delete_objects", "delete_bucket"} /\ ~trace[j].ok) =>
                /\ last.status # "ok"
                /\ trace[Len(trace)].m \in {"delete_objects", "delete_bucket"}
        /\ (last.status = "ok" /\ trace # <<>>) =>
                /\ trace[Len(trace)].m = "invalidate_cache"
                /\ Len(trace) >= 2
                /\ trace[Len(trace) - 1].m = "invalidate_cache"
                /\ trace[Len(trace)].path = _parent(trace[Len(trace) - 1].path)
                /\ \A k \in DOMAIN trace :
                     trace[k].m \in {"delete_objects", "delete_bucket"}
                        => k < Len(trace) - 1

\* A recursive rm of a bucket has deleted its objects in one call, removed
\* the bucket and then invalidated the paths.
C30_Witness ==
    /\ last.op = "rm"
    /\ last.status = "ok"
    /\ \E j, k \in DOMAIN trace :
        /\ trace[j].m = "delete_objects"
        /\ trace[k].m = "delete_bucket"
        /\ trace[k].ok
        /\ k < Len(trace) - 1

\* C26: an operation that fails the validation of its arguments (the ACL of
\* mkdir, the empty path of mkdir and find, the prefix of find) raises
\* ValueError before it has issued any remote call.
C26_ValidationBeforeCalls ==
    (last.op \in {"mkdir", "find", "find_prefix"} /\ last.status = "ValueError") =>
        \A j \in DOMAIN trace : ~IsRemote(trace[j])

\* C27: find of the empty path raises ValueError, issues no remote call and
\* leaves the directory cache as it was, whatever withdirs and prefix are.
C27_FindRootRefused ==
    [][(last.op = "idle" /\ last'.op \in {"find", "find_prefix"} /\ last'.path = <<>>) =>
            /\ last'.status = "ValueError"
            /\ trace' = <<>>
            /\ dircache' = dircache]_vars

\* find("", prefix="b") without withdirs has been refused on a filesystem
\* whose cache holds listings.
C27_Witness ==
    /\ last.op = "find_prefix"
    /\ last.path = <<>>
    /\ ~last.delimiter
    /\ last.status = "ValueError"
    /\ dircache # EmptyCache

\* C28: find(path, withdirs=True) returns, with every object it finds under
\* path, every directory between path and the object.
C28_FindWithdirsChain ==
    (last.op = "find" /\ last.delimiter /\ last.status = "ok") =>
        \A i \in DOMAIN last.result :
            last.result[i].type = "file" =>
                \A d \in Paths :
                    (Under(last.path, d) /\ Under(d, last.result[i].name)) =>
                        \E j \in DOMAIN last.result : last.result[j] = DirEntry(d)

----------------------------------------------------------------------------
(* The page fetches of the paginators.                                     *)

\* The most pages of one listing.
MaxPages == 2

\* _lsdir lines 562-576 and _rm_versioned_bucket_contents lines 1689-1690:
\* the paginator fetches a page by one attempt of the remote method, outside
\* _call_s3. A timeout is no ClientError and is raised as it is; a
\* ClientError is translated (line 596).
PageFetch(m, answer) ==
    [status |-> IF answer = "ok" THEN "ok" ELSE Raised(answer),
     calls |-> <<Attempt(m, answer)>>]

\* The answers of the attempts of one _call_s3: k timeouts, then final.
TimeoutsThen(k, final) ==
    [i \in 1..(retries + 2) |-> IF i <= k THEN "timeout" ELSE final]

\* What the store answers for one page of list_object_versions: the answer of
\* the fetch, whether the page holds versions, and the answers to the
\* delete_objects of the page.
VersionPages ==
    [fetch : Answers, obs : BOOLEAN, k : 0..retries, final : Outcomes]

RECURSIVE LsdirPages(_, _, _)
\* _lsdir lines 574-580, "async for i in it": the pages from page p on, after
\* the calls made.
LsdirPages(pages, p, made) ==
    IF p > Len(pages) THEN [status |-> "ok", calls |-> made]
    ELSE IF pages[p] = "ok"
    THEN LsdirPages(pages, p + 1, made \o PageFetch("list_objects_v2", pages[p]).calls)
    ELSE [status |-> PageFetch("list_objects_v2", pages[p]).status,
          calls |-> made \o PageFetch("list_objects_v2", pages[p]).calls]

\* Line 1699: the delete_objects of the versions of page pg.
DeleteVersions(pg) == _call_s3("delete_objects", retries, TimeoutsThen(pg.k, pg.final))

RECURSIVE VersionLoop(_, _, _)
\* _rm_versioned_bucket_contents lines 1690-1699: the pages from page p on.
VersionLoop(pages, p, made) ==
    IF p > Len(pages) THEN [status |-> "ok", calls |-> made]
    ELSE IF pages[p].fetch # "ok"
    THEN [status |-> PageFetch("list_object_versions", pages[p].fetch).status,
          calls |-> made \o PageFetch("list_object_versions", pages[p].fetch).calls]
    ELSE IF ~pages[p].obs
    THEN VersionLoop(pages, p + 1,
                     made \o PageFetch("list_object_versions", "ok").calls)
    ELSE IF DeleteVersions(pages[p]).status = "ok"
    THEN VersionLoop(pages, p + 1,
                     made \o PageFetch("list_object_versions", "ok").calls
                          \o DeleteVersions(pages[p]).calls)
    ELSE [status |-> DeleteVersions(pages[p]).status,
          calls |-> made \o PageFetch("list_object_versions", "ok").calls
                         \o DeleteVersions(pages[p]).calls]

\* S3FileSystem._rm_versioned_bucket_contents(bucket) on a bucket whose
\* version listing has these pages.
_rm_versioned_bucket_contents(pages) == VersionLoop(pages, 1, <<>>)

\* The page fetches of an _lsdir that does not answer from the cache.
LsdirFetch ==
    /\ last = Idle
    /\ \E n \in 1..MaxPages : \E pages \in [1..n -> Answers] :
        /\ trace' = LsdirPages(pages, 1, <<>>).calls
        /\ last' = Last("lsdir", <<>>, LsdirPages(pages, 1, <<>>).status,
                        <<retries>>, TRUE, TRUE)
    /\ UNCHANGED <<fsvars, hvars>>

\* _rm_versioned_bucket_contents of a bucket.
RmVersionedContents ==
    /\ last = Idle
    /\ \E n \in 1..MaxPages : \E pages \in [1..n -> VersionPages] :
        /\ trace' = _rm_versioned_bucket_contents(pages).calls
        /\ last' = Last("rm_versioned_bucket_contents", <<>>,
                        _rm_versioned_bucket_contents(pages).status,
                        <<retries>>, FALSE, TRUE)
    /\ UNCHANGED <<fsvars, hvars>>

NextPages == LsdirFetch \/ RmVersionedContents \/ CallS3 \/ Return

SpecPages == Init /\ [][NextPages]_vars

\* C29: a timeout of any attempt of a remote method, a page fetch of a
\* listing included, is followed by another attempt of the same method, unless
\* it is the last of as many timeouts in a row as the retry limit.
C29_TimeoutRetried ==
    last.op \in {"call_s3", "lsdir", "rm_versioned_bucket_contents"} =>
        \A j \in DOMAIN trace :
            trace[j].answer = "timeout" =>
                \/ /\ j < Len(trace)
                   /\ trace[j + 1].m = trace[j].m
                \/ /\ j >= last.result[1]
                   /\ \A i \in (j - last.result[1] + 1)..j :
                        /\ trace[i].answer = "timeout"
                        /\ trace[i].m = trace[j].m

----------------------------------------------------------------------------
(* The managed copy: one part copy at a time.                              *)

\* The positions in the trace of the part copies.
PartCopyAt == {j \in DOMAIN trace : trace[j].m = "upload_part_copy"}

\* C31: the managed copy issues its part copies one after the other: a part
\* copy that fails is the last call, so that no part copy is issued before the
\* one before it has answered; the parts are numbered from 1 in the order of
\* their byte ranges, which follow one another from byte 0; and the complete
\* comes only after the part copy of the last block has answered.
C31_ManagedSequential ==
    (last.op = "cp_file" /\ Chosen = "managed") =>
        /\ \A j \in PartCopyAt : ~trace[j].ok => j = Len(trace)
        /\ \A i \in DOMAIN PartCopies :
            /\ PartCopies[i].part = i
            /\ PartCopies[i].range[1] =
                  (IF i = 1 THEN 0 ELSE PartCopies[i - 1].range[2] + 1)
            /\ PartCopies[i].range[1] <= PartCopies[i].range[2]
        /\ \A j \in DOMAIN trace :
            trace[j].m = "complete_multipart_upload" =>
                /\ \A k \in PartCopyAt : k < j /\ trace[k].ok
                /\ PartCopies[Len(PartCopies)].range[2] = remote.size - 1
                /\ trace[j].parts = [i \in 1..Len(PartCopies) |-> i]

\* An object of 11 GiB has been copied in three blocks of 5 GiB at most.
C31_Witness ==
    /\ last.op = "cp_file"
    /\ Chosen = "managed"
    /\ last.status = "ok"
    /\ remote.size = 11
    /\ Len(PartCopies) = 3
    /\ PartCopies[3].range = <<10, 10>>

----------------------------------------------------------------------------
(* merge: the part copies of a file list, gathered.                        *)

\* The most paths of a file list.
MaxMerge == 3

\* The file lists: paths of objects, each at most once.
FileLists ==
    UNION {{f \in [1..n -> WritePaths] : \A i, j \in 1..n : i # j => f[i] # f[j]} :
              n \in 1..MaxMerge}

\* The orders in which n concurrent calls can answer: the k-th to answer is
\* the order[k]-th that was issued.
Orders(n) == {f \in [1..n -> 1..n] : \A i, j \in 1..n : i # j => f[i] # f[j]}

\* How the calls of one merge end.
MergeRuns == [1..(MaxMerge + 2) -> {"ok", "fail"}]

\* The record of a call of merge: the part number and the source of a part
\* copy with the etag the store returned for it, which is that of the source;
\* the parts of a complete.
MergeCall(m, ok, part, source, parts) ==
    [m |-> m, path |-> CopyDst, ok |-> ok, keys |-> {}, part |-> part,
     source |-> source, etag |-> source, parts |-> parts]

\* _merge lines 1436-1448: one upload_part_copy for each path of filelist,
\* PartNumber = i + 1 for the path at index i, in the order they are issued.
MergePartCopies(bks, filelist, rs) ==
    [i \in 1..Len(filelist) |->
        MergeCall("upload_part_copy", Reply(bks, CopyDst, rs, i) = "ok", i, filelist[i],
                  <<>>)]

\* A mutant of gather: the results in the order the calls answered.
MergeOut_as_completed(issued, order) == [k \in DOMAIN issued |-> issued[order[k]]]

\* _merge line 1436, out = await asyncio.gather(...): the results are in the
\* order of the calls given to gather.
MergeOut(issued, order) == issued

\* _merge lines 1449-1453: the parts of the complete.
MergeParts(out) ==
    [i \in DOMAIN out |-> [PartNumber |-> i, ETag |-> out[i].etag]]

\* The calls in the order they answered.
Answered(issued, order) == [k \in DOMAIN issued |-> issued[order[k]]]

\* _merge lines 1454-1462 after the calls made: the complete, then
\* invalidate_cache(path).
MergeComplete(cache, bks, out, rs, made) ==
    IF Reply(bks, CopyDst, rs, Len(out) + 1) # "ok"
    THEN Copied(ErrorOf(Reply(bks, CopyDst, rs, Len(out) + 1)),
                Append(made, MergeCall("complete_multipart_upload", FALSE, 0, <<>>,
                                       MergeParts(out))), FALSE)
    ELSE Copied("ok",
                made \o <<MergeCall("complete_multipart_upload", TRUE, 0, <<>>,
                                    MergeParts(out)),
                          [m |-> "invalidate_cache", path |-> CopyDst, ok |-> TRUE,
                           keys |-> Evict(cache, CopyDst).keys, part |-> 0,
                           source |-> <<>>, etag |-> <<>>, parts |-> <<>>]>>, TRUE)

\* A mutant of the failure of a part copy: the session is aborted.
MergeGathered_aborting(cache, bks, issued, order, rs, made) ==
    IF FirstFailed(Answered(issued, order)) # 0
    THEN Copied("error",
                made \o Answered(issued, order)
                     \o <<MergeCall("abort_multipart_upload", TRUE, 0, <<>>, <<>>)>>,
                FALSE)
    ELSE MergeComplete(cache, bks, MergeOut(issued, order), rs,
                       made \o Answered(issued, order))

\* _merge after the create: gather raises the error of the first part copy
\* that fails, and the others, all issued, go on to their end.
MergeGathered(cache, bks, issued, order, rs, made) ==
    IF FirstFailed(Answered(issued, order)) # 0
    THEN Copied(ErrorOf(Reply(bks, CopyDst, rs,
                              order[FirstFailed(Answered(issued, order))])),
                made \o Answered(issued, order), FALSE)
    ELSE MergeComplete(cache, bks, MergeOut(issued, order), rs,
                       made \o Answered(issued, order))

\* S3FileSystem._merge(path, filelist), lines 1416-1462; ver is whether path
\* carries a version id.
_merge(cache, bks, ver, filelist, order, rs) ==
    IF ver THEN Copied("ValueError", <<>>, FALSE)
    ELSE IF Reply(bks, CopyDst, rs, 0) # "ok"
    THEN Copied(ErrorOf(Reply(bks, CopyDst, rs, 0)),
                <<MergeCall("create_multipart_upload", FALSE, 0, <<>>, <<>>)>>, FALSE)
    ELSE MergeGathered(cache, bks, MergePartCopies(bks, filelist, rs), order, rs,
                       <<MergeCall("create_multipart_upload", TRUE, 0, <<>>, <<>>)>>)

\* merge(path, filelist).
Merge ==
    /\ last = Idle
    /\ \E ver \in BOOLEAN, filelist \in FileLists, rs \in MergeRuns :
        \E order \in Orders(Len(filelist)) :
            /\ trace' = _merge(dircache, buckets, ver, filelist, order, rs).calls
            /\ last' = Last("merge", CopyDst,
                            _merge(dircache, buckets, ver, filelist, order, rs).status,
                            [filelist |-> filelist, order |-> order], FALSE, TRUE)
            /\ objects' = IF _merge(dircache, buckets, ver, filelist, order, rs).stored
                          THEN objects \cup {CopyDst} ELSE objects
            /\ dircache' = IF _merge(dircache, buckets, ver, filelist, order, rs).stored
                           THEN invalidate_cache(dircache, CopyDst) ELSE dircache
    /\ UNCHANGED <<buckets, anon, version_aware, hvars>>

\* ls of a bucket.
LsBucket ==
    /\ last = Idle
    /\ \E p \in {<<b>> : b \in BucketNames} :
        \E rs \in Runs(LAMBDA r : _ls(dircache, objects, buckets, anon, p, FALSE, r, 0)) :
            Reads("ls", p, _ls(dircache, objects, buckets, anon, p, FALSE, rs, 0),
                  FALSE, TRUE)

\* A new filesystem on a store that holds a source object above the
\* threshold, without a part count in its etag or with one.
InitMultipart ==
    /\ buckets = BucketNames
    /\ objects = WritePaths
    /\ dircache = EmptyCache
    /\ anon = FALSE
    /\ version_aware = FALSE
    /\ file = NoFile
    /\ remote \in {s \in Sources : s.size = 6 /\ s.parts \in {<<>>, <<5, 1>>}}
    /\ trace = <<>>
    /\ last = Idle

NextMultipart == LsBucket \/ Merge \/ CpFile \/ PipeFile \/ Return

SpecMultipart == InitMultipart /\ [][NextMultipart]_vars

\* The position in the trace of the complete of a merge, 0 when there is none.
CompleteAt ==
    IF \E j \in DOMAIN trace : trace[j].m = "complete_multipart_upload"
    THEN CHOOSE j \in DOMAIN trace : trace[j].m = "complete_multipart_upload"
    ELSE 0

\* C32: merge gives part number i to the i-th path of filelist, and in
\* whatever order the part copies answer, the complete lists the parts 1..n in
\* increasing order, part i with the etag returned for the i-th path.
C32_MergePartsInOrder ==
    last.op = "merge" =>
        /\ \A j \in DOMAIN trace :
            trace[j].m = "upload_part_copy" =>
                /\ trace[j].part \in DOMAIN last.result.filelist
                /\ trace[j].source = last.result.filelist[trace[j].part]
        /\ CompleteAt # 0 =>
            /\ Len(trace[CompleteAt].parts) = Len(last.result.filelist)
            /\ \A i \in DOMAIN trace[CompleteAt].parts :
                /\ trace[CompleteAt].parts[i].PartNumber = i
                /\ \E j \in 1..(CompleteAt - 1) :
                    /\ trace[j].m = "upload_part_copy"
                    /\ trace[j].source = last.result.filelist[i]
                    /\ trace[j].ok
                    /\ trace[CompleteAt].parts[i].ETag = trace[j].etag

\* A merge of three paths has completed after its part copies answered in the
\* reverse of the order they were issued in.
C32_Witness ==
    /\ last.op = "merge"
    /\ last.status = "ok"
    /\ Len(last.result.filelist) = 3
    /\ last.result.order = <<3, 2, 1>>
    /\ trace[2].part = 3
    /\ trace[4].part = 1

----------------------------------------------------------------------------
(* A multipart operation that fails leaves its session behind.             *)

\* The operations that copy or upload in parts.
MultipartOps == {"merge", "cp_file", "pipe_file_multipart"}

\* The operation has opened a session and has raised.
SessionLeft ==
    /\ last.op \in MultipartOps
    /\ last.status # "ok"
    /\ \E j \in DOMAIN trace : trace[j].m = "create_multipart_upload" /\ trace[j].ok

\* The sessions the calls of the trace leave open on the store.
OpenSessions ==
    Cardinality({j \in DOMAIN trace : trace[j].m = "create_multipart_upload" /\ trace[j].ok})
    - Cardinality({j \in DOMAIN trace :
                      /\ trace[j].m \in {"complete_multipart_upload",
                                        "abort_multipart_upload"}
                      /\ trace[j].ok})

----------------------------------------------------------------------------
(* The probes of info.                                                     *)

\* info(path, refresh); the result of last holds the outcomes of its calls.
InfoProbes ==
    /\ last = Idle
    /\ \E p \in Paths, refresh \in BOOLEAN :
        \E rs \in Runs(LAMBDA r : _info(dircache, objects, buckets, version_aware, p,
                                        refresh, r, 0)) :
            Reads("info_probes", p,
                  [status |-> _info(dircache, objects, buckets, version_aware, p, refresh,
                                    rs, 0).status,
                   out |-> <<rs>>, cache |-> dircache,
                   calls |-> _info(dircache, objects, buckets, version_aware, p, refresh,
                                   rs, 0).calls], refresh, TRUE)

NextInfo == Ls \/ InfoProbes \/ Return

SpecInfo == Init /\ [][NextInfo]_vars

\* _info lines 1054-1055: the cache does not answer for path p.
InfoMisses(cache, p, refresh) ==
    ~(InfoUsesCache(refresh) /\ _ls_from_cache(cache, p).kind # "None")

\* C33: info of a path with a key that the cache does not answer: a
\* version-aware filesystem issues the head probe first, and a listing only
\* after the head probe found no object, which is the directory probe; a
\* version-unaware filesystem issues the list probe of the key first, and the
\* head probe only as its second call after the list probe was refused for
\* lack of permission, and then always.
C33_InfoProbeChoice ==
    [][(/\ last.op = "idle"
        /\ last'.op = "info_probes"
        /\ KeyOf(last'.path) # <<>>
        /\ InfoMisses(dircache, last'.path, last'.refresh)) =>
            /\ trace' # <<>>
            /\ IF version_aware
               THEN /\ trace'[1].m = "head_object"
                    /\ \A j \in DOMAIN trace' :
                        trace'[j].m = "list_objects_v2" =>
                            /\ j = 2
                            /\ last'.result[1][1] = "ok"
                            /\ last'.path \notin objects
               ELSE /\ trace'[1].m = "list_objects_v2"
                    /\ \A j \in DOMAIN trace' :
                        trace'[j].m = "head_object" =>
                            (j = 2 /\ last'.result[1][1] = "denied")
                    /\ last'.result[1][1] = "denied" =>
                            (Len(trace') >= 2 /\ trace'[2].m = "head_object")]_vars

\* On a version-unaware filesystem info has found the object by the head
\* probe after its list probe was refused.
C33_Witness ==
    /\ last.op = "info_probes"
    /\ ~version_aware
    /\ last.status = "ok"
    /\ Len(trace) = 2
    /\ trace[1].m = "list_objects_v2"
    /\ ~trace[1].ok
    /\ trace[2].m = "head_object"

----------------------------------------------------------------------------
(* _bulk_delete: the lists it refuses.                                     *)

\* A list of len paths of bucket "a": keys directly below the bucket, named
\* by their number.
NumberedPaths(len) == [i \in 1..len |-> <<"a", ToString(i)>>]

\* The lists given to _bulk_delete: the objects of the model in key order,
\* and long lists of one bucket and of two.
PathLists ==
    {SelectSeq(AllKeys, LAMBDA k : k \in S) : S \in SUBSET ObjPaths}
    \cup {NumberedPaths(MaxBatch + 1)}
    \cup {Append(NumberedPaths(MaxBatch), <<"z", "f">>)}

\* _bulk_delete(pathlist); the result of last holds the length of the list
\* and the number of its buckets.
BulkDeleteList ==
    /\ last = Idle
    /\ \E pathlist \in PathLists :
        \E rs \in Runs(LAMBDA r : _bulk_delete(dircache, objects, buckets, pathlist, r, 0)) :
            /\ dircache' = _bulk_delete(dircache, objects, buckets, pathlist, rs, 0).cache
            /\ objects' = _bulk_delete(dircache, objects, buckets, pathlist, rs, 0).objs
            /\ trace' = _bulk_delete(dircache, objects, buckets, pathlist, rs, 0).calls
            /\ last' = Last("bulk_delete_list", <<>>,
                            _bulk_delete(dircache, objects, buckets, pathlist, rs, 0).status,
                            [len |-> Len(pathlist),
                             buckets |-> Cardinality({BucketOf(pathlist[i]) :
                                                         i \in DOMAIN pathlist})],
                            FALSE, TRUE)
    /\ UNCHANGED <<buckets, anon, version_aware, hvars>>

NextBulk == LsBucket \/ BulkDeleteList \/ Restore \/ Return

SpecBulk == Init /\ [][NextBulk]_vars

\* C34: _bulk_delete of an empty list returns without a remote call;
\* _bulk_delete of paths of more than one bucket, or of more than 1000 paths,
\* raises ValueError without a remote call, and the directory cache is as it
\* was.
C34_BulkDeleteRefusals ==
    [][(last.op = "idle" /\ last'.op = "bulk_delete_list") =>
            /\ last'.result.len = 0 =>
                /\ last'.status = "ok"
                /\ \A j \in DOMAIN trace' : ~IsRemote(trace'[j])
            /\ (last'.result.buckets > 1 \/ last'.result.len > MaxBatch) =>
                /\ last'.status = "ValueError"
                /\ \A j \in DOMAIN trace' : ~IsRemote(trace'[j])
                /\ dircache' = dircache]_vars

\* A list of 1001 paths of one bucket has been refused on a filesystem whose
\* cache holds the listing of that bucket.
C34_Witness ==
    /\ last.op = "bulk_delete_list"
    /\ last.result.len = MaxBatch + 1
    /\ last.result.buckets = 1
    /\ last.status = "ValueError"
    /\ <<"a">> \in DOMAIN dircache

----------------------------------------------------------------------------
(* commit and the cached listings of the ancestors of the path.            *)

\* The ancestors of the path of the handle: the bucket, ..., the parent.
Ancestors == {SubSeq(FilePath, 1, i) : i \in 1..(Len(FilePath) - 1)}

\* The child of the ancestor d on the way to the path.
ChildOf(d) == SubSeq(FilePath, 1, Len(d) + 1)

\* A filesystem whose cache holds listings of ancestors of the path, taken
\* from the store as it is: the path is not an object of the store, or it is.
InitCommit ==
    /\ buckets = BucketNames
    /\ anon = FALSE
    /\ version_aware = FALSE
    /\ \E size \in {0, part_min + 2} :
        /\ objects = IF size = 0 THEN WritePaths \ {FilePath} ELSE WritePaths
        /\ remote = NoSession(Bytes(0 - size, 0))
        /\ \E S \in SUBSET {d \in Ancestors : ListingOf(objects, d, TRUE, "") # <<>>} :
            dircache = [d \in S |-> ListingOf(objects, d, TRUE, "")]
    /\ file = NoFile
    /\ trace = <<>>
    /\ last = Idle

SpecCommit == InitCommit /\ [][NextFile]_vars

\* An operation of the handle has committed the file: it has returned, and
\* the object was stored by one of its calls.
Committed ==
    /\ last.op \in {"commit", "close", "flush_force"}
    /\ last.status = "ok"
    /\ \E j \in DOMAIN trace :
        trace[j].m \in {"put_object", "complete_multipart_upload"} /\ trace[j].ok

----------------------------------------------------------------------------
(* The listings find stores.                                               *)

\* The names of the entries of a listing.
EntryNames(es) == {es[i].name : i \in DOMAIN es}

\* C37: every listing that find(path) without prefix stores in the directory
\* cache for a directory d holds every immediate child of d, files and
\* directories: the names a refreshed ls(d) returns from the store.
C37_FindStoresComplete ==
    [][(last.op = "idle" /\ last'.op = "find" /\ last'.status = "ok") =>
            \A d \in (DOMAIN dircache') \ (DOMAIN dircache) :
                EntryNames(dircache'[d]) = EntryNames(ListingOf(objects, d, TRUE, ""))]_vars

----------------------------------------------------------------------------
(* Two tasks on one filesystem: a listing and a touch. Each step is the    *)
(* code of a task between two suspension points, or the store's answer.   *)

\* The task positions: not started, awaiting the store, answered by the
\* store and not yet resumed, returned.
TaskAt == {"new", "awaiting", "answered", "returned"}

\* The two tasks: _lsdir(parent of path, refresh) and _touch(path), on a
\* store that does not hold path; page is the listing the store answered.
Tasks(p, refresh) ==
    [open |-> FALSE, path |-> p, refresh |-> refresh, lister |-> "new",
     toucher |-> "new", page |-> <<>>]

\* A filesystem whose cache is empty or holds the listing of the directory as
\* the store has it, with the two tasks created.
InitRace ==
    /\ buckets = BucketNames
    /\ anon = FALSE
    /\ version_aware = FALSE
    /\ remote = NoSession(<<>>)
    /\ \E p \in WritePaths, refresh \in BOOLEAN :
        /\ objects = WritePaths \ {p}
        /\ file = Tasks(p, refresh)
        /\ dircache \in
              {EmptyCache}
              \cup {[d \in {_parent(p)} |-> ListingOf(objects, d, TRUE, "")] :
                       x \in {y \in {1} : ListingOf(objects, _parent(p), TRUE, "") # <<>>}}
    /\ trace = <<>>
    /\ last = Idle

\* _lsdir line 557, "if path not in self.dircache or refresh": the cached
\* listing is returned without a call.
LsdirCached ==
    /\ file.lister = "new"
    /\ _parent(file.path) \in DOMAIN dircache /\ ~file.refresh
    /\ file' = [file EXCEPT !.lister = "returned"]
    /\ trace' = Append(trace, Call("lsdir_returns", _parent(file.path), TRUE))
    /\ UNCHANGED <<fsvars, remote, last>>

\* _lsdir lines 558-574: the listing is asked of the store and the task
\* waits for the page.
LsdirIssue ==
    /\ file.lister = "new"
    /\ _parent(file.path) \notin DOMAIN dircache \/ file.refresh
    /\ file' = [file EXCEPT !.lister = "awaiting"]
    /\ trace' = Append(trace, Call("list_objects_v2", _parent(file.path), TRUE))
    /\ UNCHANGED <<fsvars, remote, last>>

\* The store answers the listing with what it holds.
LsdirPage ==
    /\ file.lister = "awaiting"
    /\ file' = [file EXCEPT !.lister = "answered",
                            !.page = ListingOf(objects, _parent(file.path), TRUE, "")]
    /\ UNCHANGED <<fsvars, remote, trace, last>>

\* _lsdir lines 575-601: the task resumes with the page, stores the files
\* under the path when there are any and returns them.
LsdirStore ==
    /\ file.lister = "answered"
    /\ file' = [file EXCEPT !.lister = "returned"]
    /\ dircache' = IF LsdirStores(TRUE, file.page)
                   THEN Put(dircache, _parent(file.path), file.page) ELSE dircache
    /\ trace' = Append(trace, Call("lsdir_returns", _parent(file.path), TRUE))
    /\ UNCHANGED <<buckets, objects, anon, version_aware, remote, last>>

\* _touch lines 843-845: the put_object is sent and the task waits.
TouchIssue ==
    /\ file.toucher = "new"
    /\ file' = [file EXCEPT !.toucher = "awaiting"]
    /\ UNCHANGED <<fsvars, remote, trace, last>>

\* The store creates the object and answers.
TouchStored ==
    /\ file.toucher = "awaiting"
    /\ file' = [file EXCEPT !.toucher = "answered"]
    /\ objects' = objects \cup {file.path}
    /\ trace' = Append(trace, Call("put_object", file.path, TRUE))
    /\ UNCHANGED <<buckets, dircache, anon, version_aware, remote, last>>

\* _touch lines 848-849: the task resumes, invalidates the parent and
\* returns.
TouchInvalidate ==
    /\ file.toucher = "answered"
    /\ file' = [file EXCEPT !.toucher = "returned"]
    /\ dircache' = invalidate_cache(dircache, _parent(file.path))
    /\ trace' = Append(trace, Evict(dircache, _parent(file.path)))
    /\ UNCHANGED <<buckets, objects, anon, version_aware, remote, last>>

\* Both tasks have returned: ls(parent of path, refresh=False) answers from
\* the cache when it holds the listing, else from the store.
LsAfter ==
    /\ last = Idle
    /\ file.lister = "returned" /\ file.toucher = "returned"
    /\ last' = Last("ls", _parent(file.path), "ok",
                    IF _parent(file.path) \in DOMAIN dircache
                    THEN dircache[_parent(file.path)]
                    ELSE ListingOf(objects, _parent(file.path), TRUE, ""),
                    FALSE, TRUE)
    /\ dircache' = IF _parent(file.path) \notin DOMAIN dircache
                      /\ LsdirStores(TRUE, ListingOf(objects, _parent(file.path), TRUE, ""))
                   THEN Put(dircache, _parent(file.path),
                            ListingOf(objects, _parent(file.path), TRUE, ""))
                   ELSE dircache
    /\ UNCHANGED <<buckets, objects, anon, version_aware, hvars, trace>>

NextRace ==
    \/ LsdirCached \/ LsdirIssue \/ LsdirPage \/ LsdirStore
    \/ TouchIssue \/ TouchStored \/ TouchInvalidate
    \/ LsAfter

SpecRace == InitRace /\ [][NextRace]_vars

\* The place in the trace of the event m, 0 when it has not happened.
EventAt(m) ==
    IF \E j \in DOMAIN trace : trace[j].m = m
    THEN CHOOSE j \in DOMAIN trace : trace[j].m = m ELSE 0

\* The listing was asked before the store created the object, and has
\* returned after the touch invalidated the directory.
ListedAcrossTouch ==
    /\ EventAt("list_objects_v2") # 0
    /\ EventAt("list_objects_v2") < EventAt("put_object")
    /\ EventAt("invalidate_cache") # 0
    /\ EventAt("invalidate_cache") < EventAt("lsdir_returns")

\* C38: when a listing of a directory started before a touch below it and
\* returned after the invalidation of the touch, the ls of the directory
\* without refresh that follows the two tasks returns the new object.
C38_ListingReflectsTouch ==
    (last.op = "ls" /\ ListedAcrossTouch) =>
        file.path \in EntryNames(last.result)

----------------------------------------------------------------------------
(* metadata and setxattr: the metadata cache.                              *)

\* The object whose metadata is read and set.
XPath == <<"a", "d">>

\* The metadata fields and their values; "None" asks setxattr to delete the
\* field.
XKeys == {"k1", "k2"}

XValues == {"v1", "v2"}

\* The metadata of an object: values of some of the fields.
Metas == UNION {[S -> XValues] : S \in SUBSET XKeys}

\* _setxattr lines 1337 and 1341-1343, metadata.update(**kw_args) and the pop
\* of the fields that are None.
XUpdate(meta, k, v) ==
    IF v = "None" THEN [x \in (DOMAIN meta) \ {k} |-> meta[x]]
    ELSE [x \in (DOMAIN meta) \cup {k} |-> IF x = k THEN v ELSE meta[x]]

\* What a metadata operation has come to: the status, the metadata returned,
\* the cache, the metadata of the object on the store, the calls.
XResult(status, out, mcache, stored, calls) ==
    [status |-> status, out |-> out, mcache |-> mcache, stored |-> stored, calls |-> calls]

\* S3FileSystem._metadata(path, refresh), lines 1204-1229.
_metadata(mcache, stored, bks, refresh, rs, n) ==
    IF ~(refresh \/ XPath \notin DOMAIN mcache)
    THEN XResult("ok", mcache[XPath], mcache, stored, <<>>)
    ELSE IF Reply(bks, XPath, rs, n) # "ok"
    THEN XResult(ErrorOf(Reply(bks, XPath, rs, n)), <<>>, mcache, stored,
                 <<Call("head_object", XPath, FALSE)>>)
    ELSE XResult("ok", stored, Put(mcache, XPath, stored), stored,
                 <<Call("head_object", XPath, TRUE)>>)

\* _setxattr lines 1336-1343 with the answer m of _metadata: metadata is the
\* dictionary the cache holds for the path, so update and pop change the
\* entry of the cache.
XAliased(m, k, v) == Put(m.mcache, XPath, XUpdate(m.out, k, v))

\* _setxattr lines 1349-1360: the copy_object with the new metadata, then the
\* entry of the cache is set to it.
XCopy(m, bks, k, v, rs, n) ==
    IF Reply(bks, XPath, rs, n) # "ok"
    THEN XResult(ErrorOf(Reply(bks, XPath, rs, n)), <<>>, XAliased(m, k, v), m.stored,
                 Append(m.calls, Call("copy_object", XPath, FALSE)))
    ELSE XResult("ok", <<>>, Put(XAliased(m, k, v), XPath, XUpdate(m.out, k, v)),
                 XUpdate(m.out, k, v), Append(m.calls, Call("copy_object", XPath, TRUE)))

\* S3FileSystem._setxattr(path, k=v), lines 1306-1360.
_setxattr(mcache, stored, bks, k, v, rs) ==
    IF _metadata(mcache, stored, bks, FALSE, rs, 0).status # "ok"
    THEN _metadata(mcache, stored, bks, FALSE, rs, 0)
    ELSE XCopy(_metadata(mcache, stored, bks, FALSE, rs, 0), bks, k, v, rs,
               Len(_metadata(mcache, stored, bks, FALSE, rs, 0).calls))

\* A new filesystem, whose metadata cache is empty, on a store whose object
\* has some metadata.
InitXattr ==
    /\ buckets = BucketNames
    /\ objects = WritePaths
    /\ dircache = EmptyCache
    /\ anon = FALSE
    /\ version_aware = FALSE
    /\ file = [open |-> FALSE, metadata_cache |-> EmptyCache]
    /\ remote \in [stored : Metas]
    /\ trace = <<>>
    /\ last = Idle

\* The outcomes of the two calls of a metadata operation.
XRuns == [1..2 -> Outcomes]

\* A metadata operation ends in x.
XEnds(op, x) ==
    /\ file' = [file EXCEPT !.metadata_cache = x.mcache]
    /\ remote' = [stored |-> x.stored]
    /\ trace' = x.calls
    /\ last' = Last(op, XPath, x.status, x.out, FALSE, TRUE)
    /\ UNCHANGED fsvars

\* metadata(path, refresh=refresh).
Metadata ==
    /\ last = Idle
    /\ \E refresh \in BOOLEAN, rs \in XRuns :
        XEnds(IF refresh THEN "metadata_refresh" ELSE "metadata",
              _metadata(file.metadata_cache, remote.stored, buckets, refresh, rs, 0))

\* setxattr(path, k=v).
SetXattr ==
    /\ last = Idle
    /\ \E k \in XKeys, v \in XValues \cup {"None"}, rs \in XRuns :
        XEnds("setxattr", _setxattr(file.metadata_cache, remote.stored, buckets, k, v, rs))

NextXattr == Metadata \/ SetXattr \/ Return

SpecXattr == InitXattr /\ [][NextXattr]_vars

\* C39: when the copy_object of setxattr fails, the entry of the metadata
\* cache for the path is as it was before the call, and metadata(path)
\* without refresh returns the metadata the store holds for the object.
C39_FailedSetxattrKeepsCache ==
    [][(/\ last.op = "idle"
        /\ last'.op = "setxattr"
        /\ \E j \in DOMAIN trace' : trace'[j].m = "copy_object" /\ ~trace'[j].ok) =>
            /\ XPath \in DOMAIN file.metadata_cache =>
                    file'.metadata_cache[XPath] = file.metadata_cache[XPath]
            /\ _metadata(file'.metadata_cache, remote'.stored, buckets, FALSE,
                         <<"ok", "ok">>, 0).out = remote'.stored]_vars

----------------------------------------------------------------------------
(* The etag-preserving copy when the part probes and the size disagree.    *)

\* Source objects whose part probes report sizes that sum to the size that
\* info returned, to less, to one more and to far more.
SourcesAnyParts ==
    {[size |-> 4, parts |-> <<2, 2>>], [size |-> 3, parts |-> <<1, 1>>],
     [size |-> 2, parts |-> <<3>>], [size |-> 6, parts |-> <<5, 2>>],
     [size |-> 6, parts |-> <<5, 5, 5>>], [size |-> 5, parts |-> <<2, 2, 2>>]}

\* A new filesystem on a store that holds one of these source objects.
InitCopyParts ==
    /\ buckets = BucketNames
    /\ objects = WritePaths
    /\ dircache = EmptyCache
    /\ anon = FALSE
    /\ version_aware \in BOOLEAN
    /\ file = NoFile
    /\ remote \in SourcesAnyParts
    /\ trace = <<>>
    /\ last = Idle

SpecCopyParts == InitCopyParts /\ [][NextCopy]_vars

\* C40: whatever sizes the part probes report, every byte range of a part
\* copy of the etag-preserving copy lies in the object:
\* 0 <= first <= last <= size - 1.
C40_EtagRangesInObject ==
    (last.op = "cp_file" /\ Chosen = "etag_preserved") =>
        \A i \in DOMAIN PartCopies :
            /\ 0 <= PartCopies[i].range[1]
            /\ PartCopies[i].range[1] <= PartCopies[i].range[2]
            /\ PartCopies[i].range[2] <= remote.size - 1

====
